---- MODULE Spec2Model ----
(***************************************************************************)
(* A model of pyuepak: the PakFile facade (pak.py), the footer codec       *)
(* (footer.py), the entry codec (entry.py), the index writer (index.py)    *)
(* and the byte cursors (file_io.py).                                      *)
(*                                                                         *)
(* Bytes are sequences over 0..255.  Positions are 0-based as in the       *)
(* Python source; SubSeq indices are shifted by one where they are used.   *)
(* A Python exception is the name of its class in the field err; the      *)
(* value "none" means the call returned.  Three ValueErrors carry the name *)
(* of their kind: "InvalidArchive" (check_pak_version found no magic),     *)
(* "UnsupportedVersion" (PakVersion(x) of an unknown x) and                *)
(* "DecryptionRequired" (index.decrypt without a key); struct.error is     *)
(* "StructError".                                                          *)
(***************************************************************************)
EXTENDS Integers, Sequences, FiniteSets, TLC

None == "None"
NoErr == "none"

\* F(x) with x evaluated once: a local variable of the code
Bind(x, F(_)) == CHOOSE y \in {F(v) : v \in {x}} : TRUE

Min(a, b) == IF a < b THEN a ELSE b
Max(a, b) == IF a > b THEN a ELSE b

(***************************************************************************)
(* version.py: the IntEnum of format revisions.                            *)
(***************************************************************************)
V1 == 1
V2 == 2
V3 == 3
V4 == 4
V5 == 5
V6 == 6
V7 == 7
V8A == 8
V8B == 9
V9 == 10
V10 == 11
V11 == 12
PakVersion == V1..V11

(***************************************************************************)
(* Byte helpers: struct "<I"/"<Q" packing and unpacking.                   *)
(***************************************************************************)
Zeros(n) == IF n <= 0 THEN <<>> ELSE [i \in 1..n |-> 0]

RECURSIVE Concat(_)
Concat(parts) ==
    IF parts = <<>> THEN <<>> ELSE Head(parts) \o Concat(Tail(parts))

RECURSIVE BitXor(_, _, _)
\* a ^ b for values of n bits
BitXor(a, b, n) ==
    IF n = 0 THEN 0
    ELSE ((a + b) % 2) + 2 * BitXor(a \div 2, b \div 2, n - 1)

\* a function over 1..n as the tuple of its values, each computed once
Tuple(f) == f \o <<>>

\* a ^ b and a & b of two values of four bits, as tables: the entry for a
\* and b is at a + 1, b + 1
Xor4 ==
    Tuple([a \in 1..16 |-> Tuple([b \in 1..16 |-> BitXor(a - 1, b - 1, 4)])])
And4 ==
    Tuple([a \in 1..16 |-> Tuple([b \in 1..16 |->
        (a - 1 + b - 1 - BitXor(a - 1, b - 1, 4)) \div 2])])

RECURSIVE Nibbles(_, _, _, _)
\* the table t applied to the n low groups of four bits of a and b
Nibbles(t, a, b, n) ==
    IF n = 0 THEN 0
    ELSE t[(a % 16) + 1][(b % 16) + 1]
         + 16 * Nibbles(t, a \div 16, b \div 16, n - 1)

\* the tables of a ^ b and a & b of two bytes
Xor8 ==
    Tuple([a \in 1..256 |->
               Tuple([b \in 1..256 |-> Nibbles(Xor4, a - 1, b - 1, 2)])])
And8 ==
    Tuple([a \in 1..256 |->
               Tuple([b \in 1..256 |-> Nibbles(And4, a - 1, b - 1, 2)])])

\* a ^ b and a & b of two bytes, and of two 16-bit values
XorByte(a, b) == Xor8[a + 1][b + 1]
Xor16(a, b) ==
    256 * Xor8[(a \div 256) + 1][(b \div 256) + 1]
    + Xor8[(a % 256) + 1][(b % 256) + 1]
And16(a, b) ==
    256 * And8[(a \div 256) + 1][(b \div 256) + 1]
    + And8[(a % 256) + 1][(b % 256) + 1]

RECURSIVE LE(_, _)
\* struct.Struct("<I").pack / "<Q".pack / "<B".pack of a non-negative n
LE(n, w) == IF w = 0 THEN <<>> ELSE <<n % 256>> \o LE(n \div 256, w - 1)

(***************************************************************************)
(* Unsigned values read from bytes reach 2^64 - 1 and do not fit the        *)
(* integers of TLC.  Such a number is held as its eight base-256 digits,   *)
(* the least significant first: the number of <<d1, ..., d8>> is           *)
(* d1 + 256 * d2 + ... + 256^7 * d8.                                       *)
(***************************************************************************)
\* the number n, for an integer n >= 0
W(n) == LE(n, 8)

RECURSIVE WCarry(_, _, _)
WCarry(a, b, i) ==
    IF i = 0 THEN 0 ELSE (a[i] + b[i] + WCarry(a, b, i - 1)) \div 256

\* a + b (modulo 2^64)
WAdd(a, b) == [i \in 1..8 |-> (a[i] + b[i] + WCarry(a, b, i - 1)) % 256]

\* a + b of two numbers of eight digits as Python adds them, without a
\* modulus: a sum of 2^64 or more has a ninth digit
WSum(a, b) ==
    WAdd(a, b) \o (IF WCarry(a, b, 8) = 1 THEN <<1>> ELSE <<>>)

\* the i-th digit of a number of eight or of nine digits
WDigit(a, i) == IF i <= Len(a) THEN a[i] ELSE 0

\* a <= b
WLeq(a, b) ==
    \/ \A i \in 1..9 : WDigit(a, i) = WDigit(b, i)
    \/ \E i \in 1..9 :
           /\ WDigit(a, i) < WDigit(b, i)
           /\ \A j \in (i + 1)..9 : WDigit(a, j) = WDigit(b, j)

\* struct "<I" unpack: the number of 4 bytes, the first the least significant
U32Val(b) == <<b[1], b[2], b[3], b[4], 0, 0, 0, 0>>

\* struct "<Q" unpack: the number of 8 bytes, the first the least significant
U64Val(b) == <<b[1], b[2], b[3], b[4], b[5], b[6], b[7], b[8]>>

\* min(x, 2^31 - 1) of a number x, as an integer: what x is to a
\* comparison with a length, to a slice bound and to an enumeration lookup
\* (no buffer, list or enumeration is as long as 2^31 - 1)
Clamp(x) ==
    IF x[5] # 0 \/ x[6] # 0 \/ x[7] # 0 \/ x[8] # 0 \/ x[4] >= 128
    THEN 2147483647
    ELSE x[1] + 256 * x[2] + 65536 * x[3] + 16777216 * x[4]

\* a + b for integers a, b > -2^30, at most 2^31 - 1
ClampAdd(a, b) ==
    IF a > 0 /\ b > 2147483647 - a THEN 2147483647 ELSE a + b

\* Python slice view[a:b] for any integers a, b
PySlice(s, a, b) ==
    LET n == Len(s)
        lo == IF a < 0 THEN Max(a + n, 0) ELSE Min(a, n)
        hi == IF b < 0 THEN Max(b + n, 0) ELSE Min(b, n)
    IN  IF lo < hi THEN SubSeq(s, lo + 1, hi) ELSE <<>>

(***************************************************************************)
(* footer.py                                                               *)
(***************************************************************************)
PAK_MAGIC == 1517228769   \* 0x5A6F12E1

MagicBytes == LE(PAK_MAGIC, 4)

\* struct.Struct.unpack_from(view, offset) as Reader.uint8/uint32/uint64 use
\* it: a negative offset counts from the end of the buffer, an offset
\* before byte 0 or with fewer than w bytes after it raises struct.error.
\* The cursor advances by w from its old value whenever the unpack returns.
UnpackFrom(view, pos, w) ==
    LET n == Len(view)
        off == IF pos < 0 THEN pos + n ELSE pos
    IN  IF off < 0 \/ n - off < w
        THEN [pos |-> pos, err |-> "StructError", bytes |-> <<>>]
        ELSE [pos |-> pos + w, err |-> NoErr,
              bytes |-> SubSeq(view, off + 1, off + w)]

\* Reader.uint32 at cursor pos
ReaderUint32(view, pos) ==
    LET u == UnpackFrom(view, pos, 4)
    IN  [pos |-> u.pos, err |-> u.err, bytes |-> u.bytes,
         val |-> IF u.err = NoErr THEN U32Val(u.bytes) ELSE W(0)]

\* no version (None)
NoVersion == 0

\* PakVersion(x) for an integer x: the enum constructor raises ValueError
\* outside 1..12
EnumVersion(x) ==
    IF x \in PakVersion THEN [err |-> NoErr, version |-> x]
    ELSE [err |-> "UnsupportedVersion", version |-> NoVersion]

\* one probe of check_pak_version: set_pos(size - back); magic = uint32()
Probe(view, back) == ReaderUint32(view, Len(view) - back)

\* check_pak_version(reader): the four probes in source order.  branch is
\* the probe that matched (0: none), pos the cursor the reader is left at.
check_pak_version(view) ==
    LET p1 == Probe(view, 44)
        p2 == Probe(view, 172)
        p3 == Probe(view, 204)
        p4 == Probe(view, 205)
        Fail(e, p) == [pos |-> p, err |-> e, version |-> NoVersion, branch |-> 0]
    IN  IF p1.err # NoErr THEN Fail(p1.err, p1.pos)
        ELSE IF p1.bytes = MagicBytes THEN
            LET v == ReaderUint32(view, p1.pos)
                e == EnumVersion(Clamp(v.val))
            IN  IF v.err # NoErr THEN Fail(v.err, v.pos)
                ELSE IF e.err # NoErr THEN Fail(e.err, v.pos)
                ELSE [pos |-> v.pos, err |-> NoErr, version |-> e.version,
                      branch |-> 1]
        ELSE IF p2.err # NoErr THEN Fail(p2.err, p2.pos)
        ELSE IF p2.bytes = MagicBytes THEN
            [pos |-> p2.pos, err |-> NoErr, version |-> V8A, branch |-> 2]
        ELSE IF p3.err # NoErr THEN Fail(p3.err, p3.pos)
        ELSE IF p3.bytes = MagicBytes THEN
            LET v == ReaderUint32(view, p3.pos)
                e == EnumVersion(Clamp(WAdd(v.val, W(1))))
            IN  IF v.err # NoErr THEN Fail(v.err, v.pos)
                ELSE IF e.err # NoErr THEN Fail(e.err, v.pos)
                ELSE [pos |-> v.pos, err |-> NoErr, version |-> e.version,
                      branch |-> 3]
        ELSE IF p4.err # NoErr THEN Fail(p4.err, p4.pos)
        ELSE IF p4.bytes = MagicBytes THEN
            [pos |-> p4.pos, err |-> NoErr, version |-> V9, branch |-> 4]
        ELSE Fail("InvalidArchive", p4.pos)


\* The footer of an archive given as input, for an offset and a size >= 0.
\* check_pak_version (lines 16-34) finds its magic 44 bytes before the end
\* up to V7, 172 at V8A, 204 at V8B, V10 and V11, and 205 at V9, and takes
\* the version from the u32 behind the magic; the fields are in the order
\* in which Footer.read (lines 67-85) names them: the key bytes from V7 (16,
\* as line 98 sizes them), the encrypted flag from V4, magic, wire version,
\* index offset, index size, index hash, the frozen byte at V9, and the
\* compression-name slots, four at V8A and five above.  No code of the
\* repository writes such a footer from V4 on: see FooterWrite.
ArchiveFooter(version, encrypted, offset, size, hash) ==
    (IF version >= V7 THEN Zeros(16) ELSE <<>>)
    \o (IF version >= V4 THEN <<IF encrypted THEN 1 ELSE 0>> ELSE <<>>)
    \o MagicBytes
    \o (IF version >= 9 THEN LE(version - 1, 4) ELSE LE(version, 4))
    \o LE(offset, 8)
    \o LE(size, 8)
    \o hash
    \o (IF version = V9 THEN <<0>> ELSE <<>>)
    \o Zeros(32 * (IF version = V8A THEN 4
                   ELSE IF version > V8A THEN 5 ELSE 0))

\* Footer.read(reader): the version is detected and stored in the footer,
\* then every branch of lines 54-65 calls reader.set_pos(n, end=True);
\* Reader.set_pos(position, where) has no parameter end: TypeError.
FooterRead(view) ==
    Bind(check_pak_version(view), LAMBDA cv :
    IF cv.err # NoErr
    THEN [pos |-> cv.pos, err |-> cv.err, version |-> NoVersion]
    ELSE [pos |-> cv.pos, err |-> "TypeError", version |-> cv.version])


(***************************************************************************)
(* file_io.py: Reader.  A reader is [view, pos, path, open, endian,        *)
(* structs]; close() releases the view (open = FALSE) and keeps path, size *)
(* and pos.  endian is the attribute, structs the key of _STRUCTS whose    *)
(* formats the typed reads use.                                            *)
(***************************************************************************)
\* Reader(): Reader(b"")
NewReader ==
    [view |-> <<>>, pos |-> 0, path |-> None, open |-> TRUE, endian |-> "<",
     structs |-> "<"]

\* Reader(file) for bytes, or for a path whose file holds the bytes
OpenReader(path, bytes) ==
    [view |-> bytes, pos |-> 0, path |-> path, open |-> TRUE, endian |-> "<",
     structs |-> "<"]

\* the keys of _STRUCTS
Endians == {"<", ">"}

\* Reader.set_endian(endian): the attribute is assigned before the lookup
\* in _STRUCTS, which raises KeyError for any other key and leaves the
\* formats as they were
SetEndian(r, endian) ==
    IF endian \in Endians
    THEN [err |-> NoErr,
          reader |-> [r EXCEPT !.endian = endian, !.structs = endian]]
    ELSE [err |-> "KeyError", reader |-> [r EXCEPT !.endian = endian]]

\* Reader.close
ReaderClose(r) == [r EXCEPT !.open = FALSE]

\* io.SEEK_SET, io.SEEK_CUR, io.SEEK_END
SEEK_SET == 0
SEEK_CUR == 1
SEEK_END == 2

\* Reader.set_pos(position, where): any other where leaves the cursor
SetPos(r, position, where) ==
    IF where = SEEK_CUR THEN [r EXCEPT !.pos = r.pos + position]
    ELSE IF where = SEEK_END
    THEN [r EXCEPT !.pos = Len(r.view)
                           - (IF position < 0 THEN 0 - position ELSE position)]
    ELSE IF where = SEEK_SET THEN [r EXCEPT !.pos = position]
    ELSE r

\* Reader.move(offset)
Move(r, offset) == SetPos(r, offset, SEEK_CUR)

\* the bytes of b in the opposite order
Reversed(b) == [i \in 1..Len(b) |-> b[Len(b) + 1 - i]]

\* Reader.uint8 / uint16 / uint32 / uint64 and int8 .. int64: unpack_from
\* on the view at the cursor; a released view (None) is not a buffer:
\* TypeError.  bytes are the w bytes of the value, the least significant
\* first: those of the view, in the opposite order under the formats ">"
ReaderUnpack(r, w) ==
    IF ~r.open THEN [pos |-> r.pos, err |-> "TypeError", bytes |-> <<>>]
    ELSE Bind(UnpackFrom(r.view, r.pos, w), LAMBDA u :
         IF r.structs = "<" THEN u
         ELSE [u EXCEPT !.bytes = Reversed(@) \o <<>>])

\* Reader.read(size): EOFError when end = pos + size lies past the size,
\* else the slice view[pos:end], whose bounds count from the end of the view
\* when they are negative, and the cursor at end
ReaderRead(r, size) ==
    IF size > Len(r.view) - r.pos
    THEN [pos |-> r.pos, err |-> "EOFError", bytes |-> <<>>]
    ELSE IF ~r.open
    THEN [pos |-> r.pos, err |-> "TypeError", bytes |-> <<>>]
    ELSE [pos |-> r.pos + size, err |-> NoErr,
          bytes |-> PySlice(r.view, r.pos, r.pos + size)]

(***************************************************************************)
(* entry.py                                                                *)
(***************************************************************************)
\* COMPRESSION(wire + 1) for an integer wire: the tag of a wire value
Compression(wire) ==
    IF wire = 0 THEN [err |-> NoErr, tag |-> "NONE"]
    ELSE IF wire = 1 THEN [err |-> NoErr, tag |-> "Zlib"]
    ELSE IF wire = 2 THEN [err |-> NoErr, tag |-> "Gzip"]
    ELSE IF wire = 3 THEN [err |-> NoErr, tag |-> "Oodle"]
    ELSE [err |-> "ValueError", tag |-> None]

\* Entry.__init__: compression and hash are slots that are not assigned
Unset == "unset"
NoHash == <<>>
\* Entry.data is None
NoData == <<-1>>
\* Entry.compressio_name is None
NoName == 0 - 1

NewEntry ==
    [offset |-> 0, size |-> 0, hash |-> NoHash, is_encrypted |-> FALSE,
     data |-> NoData, blocks |-> <<>>, compressio_name |-> NoName,
     compression_block_size |-> 0, compression_block_count |-> 0,
     compressed_size |-> 0, compression |-> Unset]

\* Entry.get_serialized_size(version, compression, block_count)
get_serialized_size(version, compressed, compression_block_count) ==
    24
    + (IF version = V8A THEN 1 ELSE 4)
    + (IF version = V1 THEN 8 ELSE 0)
    + 20
    + (IF compressed THEN 4 + 16 * compression_block_count ELSE 0)
    + 1
    + (IF version >= V3 THEN 4 ELSE 0)

\* Entry.read(reader, version), called on the class: the header is parsed
\* into a temporary Entry that is returned.  r is the reader with its cursor
\* at the header.  A compressed header of version >= V3 evaluates Block(),
\* a frozen dataclass with two required fields: TypeError.  The offset, the
\* sizes and the block size of the entry returned are numbers of eight
\* digits (W).
EntryRead(r, version) ==
    LET Bad(e, q) == [pos |-> q, err |-> e, entry |-> NewEntry]
        At(q) == [r EXCEPT !.pos = q]
        Ok(x) == [pos |-> x.pos, err |-> NoErr, bytes |-> <<>>]
    IN  Bind(ReaderUnpack(r, 8), LAMBDA a :
        IF a.err # NoErr THEN Bad(a.err, a.pos) ELSE
        Bind(ReaderUnpack(At(a.pos), 8), LAMBDA b :
        IF b.err # NoErr THEN Bad(b.err, b.pos) ELSE
        Bind(ReaderUnpack(At(b.pos), 8), LAMBDA c :
        IF c.err # NoErr THEN Bad(c.err, c.pos) ELSE
        Bind(ReaderUnpack(At(c.pos), IF version = V8A THEN 1 ELSE 4), LAMBDA d :
        IF d.err # NoErr THEN Bad(d.err, d.pos) ELSE
        Bind(Compression(IF version = V8A THEN d.bytes[1]
                         ELSE Clamp(U32Val(d.bytes))), LAMBDA comp :
        IF comp.err # NoErr THEN Bad(comp.err, d.pos) ELSE
        Bind(IF version = V1 THEN ReaderUnpack(At(d.pos), 8) ELSE Ok(d),
             LAMBDA t :
        IF t.err # NoErr THEN Bad(t.err, t.pos) ELSE
        \* line 112: Entry has __slots__ without "timestamp"
        IF version = V1 THEN Bad("AttributeError", t.pos) ELSE
        Bind(ReaderRead(At(t.pos), 20), LAMBDA h :
        IF h.err # NoErr THEN Bad(h.err, h.pos) ELSE
        Bind([NewEntry EXCEPT !.offset = U64Val(a.bytes),
                              !.compressed_size = U64Val(b.bytes),
                              !.size = U64Val(c.bytes),
                              !.compression_block_size = W(0),
                              !.compression = comp.tag,
                              !.hash = h.bytes], LAMBDA e0 :
        IF version < V3 THEN [pos |-> h.pos, err |-> NoErr, entry |-> e0]
        ELSE IF comp.tag # "NONE" THEN Bad("TypeError", h.pos) ELSE
        Bind(ReaderUnpack(At(h.pos), 1), LAMBDA f :
        IF f.err # NoErr THEN Bad(f.err, f.pos) ELSE
        Bind(ReaderUnpack(At(f.pos), 4), LAMBDA g :
        IF g.err # NoErr THEN Bad(g.err, g.pos)
        ELSE [pos |-> g.pos, err |-> NoErr,
              entry |-> [e0 EXCEPT !.is_encrypted = (f.bytes[1] # 0),
                                   !.compression_block_size =
                                       U32Val(g.bytes)]]))))))))))

\* Entry.read_file(reader, version, key).  hybrid_method wraps the function
\* in classmethod, so the receiver is a fresh Entry() also when the call is
\* made on an instance: offset 0, not encrypted, compressed_size 0, no
\* blocks.  After the header and the empty payload read, line 320 takes
\* len() of an io.BytesIO: TypeError.  The call never returns data.
EntryReadFile(r, version) ==
    Bind(EntryRead([r EXCEPT !.pos = NewEntry.offset], version), LAMBDA hd :
    IF hd.err # NoErr THEN [pos |-> hd.pos, err |-> hd.err, data |-> NoData]
    ELSE
    Bind(ReaderRead([r EXCEPT !.pos = hd.pos], NewEntry.compressed_size),
         LAMBDA payload :
    IF payload.err # NoErr
    THEN [pos |-> payload.pos, err |-> payload.err, data |-> NoData]
    ELSE [pos |-> payload.pos, err |-> "TypeError", data |-> NoData]))


(***************************************************************************)
(* AES (FIPS-197) as the cryptography library computes it: the decryption  *)
(* of 16-byte blocks in ECB mode under a key of 16, 24 or 32 bytes.        *)
(***************************************************************************)
\* the S-box: AesSBox[x + 1] is the substitute of byte x
AesSBox ==
    <<
      99, 124, 119, 123, 242, 107, 111, 197, 48, 1, 103, 43,
      254, 215, 171, 118, 202, 130, 201, 125, 250, 89, 71, 240,
      173, 212, 162, 175, 156, 164, 114, 192, 183, 253, 147, 38,
      54, 63, 247, 204, 52, 165, 229, 241, 113, 216, 49, 21,
      4, 199, 35, 195, 24, 150, 5, 154, 7, 18, 128, 226,
      235, 39, 178, 117, 9, 131, 44, 26, 27, 110, 90, 160,
      82, 59, 214, 179, 41, 227, 47, 132, 83, 209, 0, 237,
      32, 252, 177, 91, 106, 203, 190, 57, 74, 76, 88, 207,
      208, 239, 170, 251, 67, 77, 51, 133, 69, 249, 2, 127,
      80, 60, 159, 168, 81, 163, 64, 143, 146, 157, 56, 245,
      188, 182, 218, 33, 16, 255, 243, 210, 205, 12, 19, 236,
      95, 151, 68, 23, 196, 167, 126, 61, 100, 93, 25, 115,
      96, 129, 79, 220, 34, 42, 144, 136, 70, 238, 184, 20,
      222, 94, 11, 219, 224, 50, 58, 10, 73, 6, 36, 92,
      194, 211, 172, 98, 145, 149, 228, 121, 231, 200, 55, 109,
      141, 213, 78, 169, 108, 86, 244, 234, 101, 122, 174, 8,
      186, 120, 37, 46, 28, 166, 180, 198, 232, 221, 116, 31,
      75, 189, 139, 138, 112, 62, 181, 102, 72, 3, 246, 14,
      97, 53, 87, 185, 134, 193, 29, 158, 225, 248, 152, 17,
      105, 217, 142, 148, 155, 30, 135, 233, 206, 85, 40, 223,
      140, 161, 137, 13, 191, 230, 66, 104, 65, 153, 45, 15,
      176, 84, 187, 22
    >>

\* the inverse S-box: AesInvSBox[AesSBox[x + 1] + 1] = x
AesInvSBox ==
    <<
      82, 9, 106, 213, 48, 54, 165, 56, 191, 64, 163, 158,
      129, 243, 215, 251, 124, 227, 57, 130, 155, 47, 255, 135,
      52, 142, 67, 68, 196, 222, 233, 203, 84, 123, 148, 50,
      166, 194, 35, 61, 238, 76, 149, 11, 66, 250, 195, 78,
      8, 46, 161, 102, 40, 217, 36, 178, 118, 91, 162, 73,
      109, 139, 209, 37, 114, 248, 246, 100, 134, 104, 152, 22,
      212, 164, 92, 204, 93, 101, 182, 146, 108, 112, 72, 80,
      253, 237, 185, 218, 94, 21, 70, 87, 167, 141, 157, 132,
      144, 216, 171, 0, 140, 188, 211, 10, 247, 228, 88, 5,
      184, 179, 69, 6, 208, 44, 30, 143, 202, 63, 15, 2,
      193, 175, 189, 3, 1, 19, 138, 107, 58, 145, 17, 65,
      79, 103, 220, 234, 151, 242, 207, 206, 240, 180, 230, 115,
      150, 172, 116, 34, 231, 173, 53, 133, 226, 249, 55, 232,
      28, 117, 223, 110, 71, 241, 26, 113, 29, 41, 197, 137,
      111, 183, 98, 14, 170, 24, 190, 27, 252, 86, 62, 75,
      198, 210, 121, 32, 154, 219, 192, 254, 120, 205, 90, 244,
      31, 221, 168, 51, 136, 7, 199, 49, 177, 18, 16, 89,
      39, 128, 236, 95, 96, 81, 127, 169, 25, 181, 74, 13,
      45, 229, 122, 159, 147, 201, 156, 239, 160, 224, 59, 77,
      174, 42, 245, 176, 200, 235, 187, 60, 131, 83, 153, 97,
      23, 43, 4, 126, 186, 119, 214, 38, 225, 105, 20, 99,
      85, 33, 12, 125
    >>

\* the round constants
AesRcon == <<1, 2, 4, 8, 16, 32, 64, 128, 27, 54>>

\* a times x in GF(2^8)
XTime(a) == IF a < 128 THEN 2 * a ELSE XorByte((2 * a) % 256, 27)

\* the products by 9, 11, 13 and 14 in GF(2^8): the four products of byte
\* a are at a + 1
GMul ==
    Tuple([a \in 1..256 |->
        Bind(XTime(a - 1), LAMBDA x2 :
        Bind(XTime(x2), LAMBDA x4 :
        Bind(XTime(x4), LAMBDA x8 :
        [m9 |-> XorByte(x8, a - 1),
         m11 |-> XorByte(XorByte(x8, x2), a - 1),
         m13 |-> XorByte(XorByte(x8, x4), a - 1),
         m14 |-> XorByte(XorByte(x8, x4), x2)])))])

\* the byte-wise xor of two byte strings of one length
XorBytes(a, b) == Tuple([i \in 1..Len(a) |-> XorByte(a[i], b[i])])

RECURSIVE KeyExpansion(_, _)
\* the key schedule: 4 * (Nk + 7) words of four bytes, w the words so far
KeyExpansion(key, w) ==
    LET nk == Len(key) \div 4
        i == Len(w)
        sub(word) == Tuple([k \in 1..4 |-> AesSBox[word[k] + 1]])
        rot(word) == <<word[2], word[3], word[4], word[1]>>
    IN  IF i = 4 * (nk + 7) THEN w
        ELSE IF i < nk
        THEN KeyExpansion(key, Append(w, SubSeq(key, 4 * i + 1, 4 * i + 4)))
        ELSE KeyExpansion(key, Append(w, XorBytes(w[i - nk + 1],
                 IF i % nk = 0
                 THEN XorBytes(sub(rot(w[i])),
                               <<AesRcon[i \div nk], 0, 0, 0>>)
                 ELSE IF nk > 6 /\ i % nk = 4 THEN sub(w[i])
                 ELSE w[i])))

\* the 16 bytes of round key r of a key schedule
RoundKey(w, r) == w[4 * r + 1] \o w[4 * r + 2] \o w[4 * r + 3] \o w[4 * r + 4]

\* InvShiftRows then InvSubBytes: byte i of the state is row (i - 1) % 4 of
\* column (i - 1) \div 4, and row r moves r columns to the right
InvShiftSub(st) ==
    Tuple([i \in 1..16 |->
        AesInvSBox[st[((i - 1) % 4)
                      + 4 * ((((i - 1) \div 4) + 4 - ((i - 1) % 4)) % 4)
                      + 1] + 1]])

\* InvMixColumns
InvMixColumns(st) ==
    Tuple([i \in 1..16 |->
        LET c == 4 * ((i - 1) \div 4)
            r == (i - 1) % 4
            a(k) == st[c + ((r + k) % 4) + 1] + 1
        IN  XorByte(XorByte(GMul[a(0)].m14, GMul[a(1)].m11),
                    XorByte(GMul[a(2)].m13, GMul[a(3)].m9))])

RECURSIVE InvRounds(_, _, _)
\* the rounds r, r - 1, ..., 0 of the inverse cipher
InvRounds(st, w, r) ==
    IF r = 0 THEN XorBytes(InvShiftSub(st), RoundKey(w, 0))
    ELSE Bind(InvMixColumns(XorBytes(InvShiftSub(st), RoundKey(w, r))),
              LAMBDA n : InvRounds(n, w, r - 1))

\* the decryption of one block under a key schedule w
AesBlock(w, blk) ==
    InvRounds(XorBytes(blk, RoundKey(w, (Len(w) \div 4) - 1)), w,
              (Len(w) \div 4) - 2)

RECURSIVE AesBlocks(_, _, _)
AesBlocks(w, bytes, i) ==
    IF i + 15 > Len(bytes) THEN <<>>
    ELSE AesBlock(w, SubSeq(bytes, i, i + 15)) \o AesBlocks(w, bytes, i + 16)

\* algorithms.AES(key) accepts keys of 128, 192 and 256 bits
AesKeySize(key) == Len(key) \in {16, 24, 32}

\* the whole blocks of bytes decrypted one by one (ECB) under key
AesEcb(key, bytes) ==
    IF Len(bytes) < 16 THEN <<>>
    ELSE Bind(KeyExpansion(key, <<>>), LAMBDA w : AesBlocks(w, bytes, 1))

\* decryptor.update(chunk) of an ECB context holding the pending bytes pend:
\* the whole blocks of pend \o chunk are decrypted, the rest is kept
DecryptorUpdate(key, pend, chunk) ==
    LET all == pend \o chunk
        whole == (Len(all) \div 16) * 16
    IN  [pend |-> SubSeq(all, whole + 1, Len(all)),
         out |-> AesEcb(key, SubSeq(all, 1, whole))]

CHUNK == 524288          \* 512 * 1024
SMALL_FILE == 1048576    \* 1024 * 1024

RECURSIVE ExtractLoop(_, _, _, _, _, _, _)
\* the while loop of lines 233-240, followed to its end: remaining is only
\* decreased by the number of bytes the decryptor returned.  While remaining
\* is positive every pass moves the cursor forward, so the loop returns or
\* raises EOFError.  A negative remaining moves the cursor back by that
\* amount in every pass, and reader.read returns view[pos:pos + remaining]:
\* nothing while that end is at or after byte 0, once the bytes from pos to
\* the end counted from the end of the view, and nothing in every pass
\* after that: the loop does not end ("Hang", with what was written and the
\* cursor at which the empty passes begin).
ExtractLoop(view, key, encrypted, pos, remaining, pend, out) ==
    IF remaining = 0 THEN [pos |-> pos, err |-> NoErr, data |-> out]
    ELSE IF remaining < 0 /\ pos < 0
    THEN [pos |-> pos, err |-> "Hang", data |-> out]
    ELSE IF remaining < 0 /\ pos + remaining >= 0
    THEN ExtractLoop(view, key, encrypted, pos % (0 - remaining), remaining,
                     pend, out)
    ELSE
        LET chunk_to_read == Min(CHUNK, remaining)
            end == pos + chunk_to_read
        IN  IF end > Len(view)
            THEN [pos |-> pos, err |-> "EOFError", data |-> out]
            ELSE
            Bind(IF encrypted
                 THEN DecryptorUpdate(key, pend, PySlice(view, pos, end))
                 ELSE [pend |-> pend, out |-> PySlice(view, pos, end)],
                 LAMBDA dec :
            Bind([pos |-> end, pend |-> dec.pend,
                  out |-> out \o dec.out,
                  remaining |-> remaining - Len(dec.out)], LAMBDA n :
            ExtractLoop(view, key, encrypted, n.pos, n.remaining, n.pend,
                        n.out)))

\* Block(start, end)
Block(start, end) == [end |-> end, start |-> start]

RECURSIVE Adler32(_, _, _, _)
\* the Adler-32 sums a and b after the bytes of data from the i-th on
Adler32(data, i, a, b) ==
    IF i > Len(data) THEN [a |-> a, b |-> b]
    ELSE Adler32(data, i + 1, (a + data[i]) % 65521,
                 (b + ((a + data[i]) % 65521)) % 65521)

\* the four bytes of an Adler-32 checksum, most significant first
AdlerBytes(s) == <<s.b \div 256, s.b % 256, s.a \div 256, s.a % 256>>

\* A zlib stream of up to 65535 bytes kept in one stored block: the header
\* 78 01, the block header 01 (last block, stored), the length and its
\* complement, the bytes, and their Adler-32.  The archives of the model
\* hold their compressed payloads in this form.
ZlibStored(data) ==
    <<120, 1, 1, (Len(data) % 256), (Len(data) \div 256),
      255 - (Len(data) % 256), 255 - (Len(data) \div 256)>>
    \o data \o AdlerBytes(Adler32(data, 1, 1, 0))

\* the bits of a byte, least significant first, as inflate takes them
ByteBits(x) == [i \in 1..8 |-> (x \div 2^(i - 1)) % 2]

RECURSIVE BitsAt(_, _, _)
\* BITS(n) of the bits from the given place on: the first bit counts least
BitsAt(bits, from, n) ==
    IF n = 0 THEN 0 ELSE bits[from] + 2 * BitsAt(bits, from + 1, n - 1)

\* DROPBITS(n)
DropBits(bits, n) == SubSeq(bits, n + 1, Len(bits))

RECURSIVE CodeLeft(_, _)
\* inflate_table: the codes left unused after the lengths 1..l; negative
\* when the lengths claim more codes than there are
CodeLeft(count, l) ==
    IF l = 0 THEN 1 ELSE 2 * CodeLeft(count, l - 1) - count[l]

\* inflate_table(lens): the canonical Huffman code of the code lengths
\* lens (lens[s + 1] is the length of symbol s, 0 for a symbol without a
\* code).  count[l] codes have length l; syms holds the symbols by length,
\* then by value; max is the longest length.
InflateTable(lens) ==
    Bind([l \in 1..15 |-> Cardinality({i \in 1..Len(lens) : lens[i] = l})],
         LAMBDA count :
    [count |-> count,
     syms |-> Concat([l \in 1..15 |->
                 SelectSeq([i \in 1..Len(lens) |-> i - 1],
                           LAMBDA s : lens[s + 1] = l)]),
     max |-> IF \A l \in 1..15 : count[l] = 0 THEN 0
             ELSE CHOOSE l \in 1..15 :
                     count[l] # 0 /\ \A k \in (l + 1)..15 : count[k] = 0,
     over |-> \E l \in 1..15 : CodeLeft(count, l) < 0,
     left |-> CodeLeft(count, 15)])

\* the lengths inflate_table refuses: an over-subscribed set, and an
\* incomplete one unless it is a single code of one bit in a literal/length
\* or distance table.  A set with no code at all is accepted.
TableBad(t, codes) ==
    t.max # 0 /\ (t.over \/ (t.left > 0 /\ (codes \/ t.max # 1)))

RECURSIVE CodeWalk(_, _, _, _, _, _)
\* the symbol whose code the bits begin with, tried at the lengths l, l + 1,
\* ...; n is the length of the code, 0 when the bits end before the code does
CodeWalk(t, bits, l, code, first, index) ==
    IF l > Len(bits) \/ l > 15 THEN [n |-> 0, sym |-> 0, ok |-> FALSE]
    ELSE IF code + bits[l] - t.count[l] < first
    THEN [n |-> l, sym |-> t.syms[index + (code + bits[l] - first) + 1],
          ok |-> TRUE]
    ELSE CodeWalk(t, bits, l + 1, 2 * (code + bits[l]),
                  2 * (first + t.count[l]), index + t.count[l])

\* one table lookup.  The unused place of an incomplete table, and both
\* places of an empty one, are marked invalid (ok is FALSE), take one bit
\* and carry the value 0.
HuffDecode(t, bits) ==
    IF t.max = 0 \/ t.left > 0
    THEN IF bits = <<>> THEN [n |-> 0, sym |-> 0, ok |-> FALSE]
         ELSE IF t.max = 1 /\ bits[1] = 0
         THEN [n |-> 1, sym |-> t.syms[1], ok |-> TRUE]
         ELSE [n |-> 1, sym |-> 0, ok |-> FALSE]
    ELSE CodeWalk(t, bits, 1, 0, 0, 0)

\* the code lengths of a block with fixed codes (fixedtables), and its two
\* tables
FixedLens ==
    [i \in 1..288 |-> IF i <= 144 THEN 8 ELSE IF i <= 256 THEN 9
                      ELSE IF i <= 280 THEN 7 ELSE 8]
FixedLenCode == InflateTable(FixedLens)
FixedDistCode == InflateTable([i \in 1..32 |-> 5])

\* base and extra bits of the length symbols 257..285 and of the distance
\* symbols 0..29 (lbase, lext, dbase, dext of inftrees.c), and the order in
\* which the lengths of the code length code arrive
LBase ==
    <<3, 4, 5, 6, 7, 8, 9, 10, 11, 13, 15, 17, 19, 23, 27, 31, 35, 43, 51,
      59, 67, 83, 99, 115, 131, 163, 195, 227, 258>>
LExt ==
    <<0, 0, 0, 0, 0, 0, 0, 0, 1, 1, 1, 1, 2, 2, 2, 2, 3, 3, 3, 3, 4, 4, 4,
      4, 5, 5, 5, 5, 0>>
DBase ==
    <<1, 2, 3, 4, 5, 7, 9, 13, 17, 25, 33, 49, 65, 97, 129, 193, 257, 385,
      513, 769, 1025, 1537, 2049, 3073, 4097, 6145, 8193, 12289, 16385,
      24577>>
DExt == [i \in 1..30 |-> IF i <= 2 THEN 0 ELSE (i - 3) \div 2]
LenOrder ==
    <<16, 17, 18, 0, 8, 7, 9, 6, 10, 5, 11, 4, 12, 3, 13, 2, 14, 1, 15>>

\* zlib.decompressobj(): a new decompressor, before its stream.  bits are
\* the input bits not yet used; out is what the current call has produced
\* and win all the output so far; a and b are the Adler-32 sums of the
\* output; left counts the bytes of a stored block still to copy; the other
\* fields are those of inflate's state.
Decompressobj ==
    [a |-> 1, b |-> 0, err |-> NoErr, offset |-> 0,
     out |-> <<>>, bits |-> <<>>, lens |-> <<>>, left |-> 0, stage |-> "head",
     last |-> FALSE, win |-> <<>>, nlen |-> 0, ndist |-> 0,
     ncode |-> 0, lencode |-> InflateTable(<<>>),
     distcode |-> InflateTable(<<>>), length |-> 0, extra |-> 0]

\* one byte of output
ZlibEmit(z, x) ==
    [z EXCEPT !.out = Append(@, x), !.win = Append(@, x),
              !.a = (z.a + x) % 65521,
              !.b = (z.b + ((z.a + x) % 65521)) % 65521]

RECURSIVE ZlibMatch(_, _, _)
\* n bytes copied from dist bytes back in the output, one by one
ZlibMatch(z, dist, n) ==
    IF n = 0 THEN z
    ELSE IF n = 1 THEN ZlibEmit(z, z.win[Len(z.win) - dist + 1])
    ELSE Bind(ZlibMatch(z, dist, n \div 2), LAMBDA m :
              ZlibMatch(m, dist, n - (n \div 2)))

\* CODELENS: a run of copy lengths of value len, once the code and its
\* extra bits (used of them) are in
LensRepeat(z, used, len, copy) ==
    IF Len(z.lens) + copy > z.nlen + z.ndist
    THEN [z EXCEPT !.err = "ZlibError"]
    ELSE [z EXCEPT !.bits = DropBits(@, used),
                   !.lens = @ \o [i \in 1..copy |-> len]]

\* One step of inflate (zlib wrapper, 15 window bits) on the bits it
\* holds; the decompressor unchanged when the step needs more bits.
ZlibAdvance(z) ==
    LET bits == z.bits
        have == Len(z.bits)
        Bad == [z EXCEPT !.err = "ZlibError"]
    IN
    CASE z.stage = "head" ->
        \* both header bytes are judged together
        IF have < 16 THEN z
        ELSE IF (BitsAt(bits, 1, 8) * 256 + BitsAt(bits, 9, 8)) % 31 # 0
                \/ BitsAt(bits, 1, 4) # 8 \/ BitsAt(bits, 5, 4) > 7
        THEN Bad
        ELSE [z EXCEPT !.bits = DropBits(bits, 16),
                       !.stage = IF bits[14] = 1 THEN "dict" ELSE "type"]
    [] z.stage = "dict" ->
        \* a preset dictionary is asked for and none was given
        IF have < 32 THEN z ELSE Bad
    [] z.stage = "type" ->
        IF z.last
        THEN [z EXCEPT !.bits = DropBits(bits, have % 8), !.stage = "check"]
        ELSE IF have < 3 THEN z
        ELSE IF BitsAt(bits, 2, 2) = 3 THEN Bad
        ELSE [z EXCEPT !.bits = DropBits(bits, 3), !.last = (bits[1] = 1),
                       !.stage = CASE BitsAt(bits, 2, 2) = 0 -> "stored"
                                   [] BitsAt(bits, 2, 2) = 1 -> "len"
                                   [] BitsAt(bits, 2, 2) = 2 -> "table",
                       !.lencode = FixedLenCode, !.distcode = FixedDistCode]
    [] z.stage = "stored" ->
        \* from the next byte boundary: the length and its complement
        IF have - (have % 8) < 32 THEN z
        ELSE Bind(DropBits(bits, have % 8), LAMBDA al :
             IF BitsAt(al, 1, 16) + BitsAt(al, 17, 16) # 65535 THEN Bad
             ELSE [z EXCEPT !.bits = DropBits(al, 32),
                            !.left = BitsAt(al, 1, 16),
                            !.stage = IF BitsAt(al, 1, 16) = 0 THEN "type"
                                      ELSE "copy"])
    [] z.stage = "copy" ->
        IF have < 8 THEN z
        ELSE [ZlibEmit(z, BitsAt(bits, 1, 8)) EXCEPT
                  !.bits = DropBits(bits, 8), !.left = @ - 1,
                  !.stage = IF z.left = 1 THEN "type" ELSE "copy"]
    [] z.stage = "table" ->
        IF have < 14 THEN z
        ELSE IF BitsAt(bits, 1, 5) + 257 > 286 \/ BitsAt(bits, 6, 5) + 1 > 30
        THEN Bad
        ELSE [z EXCEPT !.bits = DropBits(bits, 14),
                       !.nlen = BitsAt(bits, 1, 5) + 257,
                       !.ndist = BitsAt(bits, 6, 5) + 1,
                       !.ncode = BitsAt(bits, 11, 4) + 4,
                       !.lens = <<>>, !.stage = "lenlens"]
    [] z.stage = "lenlens" ->
        IF Len(z.lens) < z.ncode
        THEN IF have < 3 THEN z
             ELSE [z EXCEPT !.bits = DropBits(bits, 3),
                            !.lens = Append(@, BitsAt(bits, 1, 3))]
        ELSE Bind(InflateTable([s \in 1..19 |->
                      IF \E k \in 1..z.ncode : LenOrder[k] = s - 1
                      THEN z.lens[CHOOSE k \in 1..z.ncode :
                                      LenOrder[k] = s - 1]
                      ELSE 0]), LAMBDA t :
             IF TableBad(t, TRUE) THEN Bad
             ELSE [z EXCEPT !.lencode = t, !.lens = <<>>,
                            !.stage = "codelens"])
    [] z.stage = "codelens" ->
        IF Len(z.lens) = z.nlen + z.ndist
        THEN IF z.lens[257] = 0 THEN Bad
             ELSE Bind(InflateTable(SubSeq(z.lens, 1, z.nlen)), LAMBDA lt :
                  Bind(InflateTable(SubSeq(z.lens, z.nlen + 1,
                                           z.nlen + z.ndist)), LAMBDA dt :
                  IF TableBad(lt, FALSE) \/ TableBad(dt, FALSE) THEN Bad
                  ELSE [z EXCEPT !.lencode = lt, !.distcode = dt,
                                 !.stage = "len"]))
        ELSE Bind(HuffDecode(z.lencode, bits), LAMBDA d :
             IF d.n = 0 THEN z
             ELSE IF d.sym < 16
             THEN [z EXCEPT !.bits = DropBits(bits, d.n),
                            !.lens = Append(@, d.sym)]
             ELSE IF d.sym = 16
             THEN IF have < d.n + 2 THEN z
                  ELSE IF z.lens = <<>> THEN Bad
                  ELSE LensRepeat(z, d.n + 2, z.lens[Len(z.lens)],
                                  3 + BitsAt(bits, d.n + 1, 2))
             ELSE IF d.sym = 17
             THEN IF have < d.n + 3 THEN z
                  ELSE LensRepeat(z, d.n + 3, 0,
                                  3 + BitsAt(bits, d.n + 1, 3))
             ELSE IF have < d.n + 7 THEN z
                  ELSE LensRepeat(z, d.n + 7, 0,
                                  11 + BitsAt(bits, d.n + 1, 7)))
    [] z.stage = "len" ->
        Bind(HuffDecode(z.lencode, bits), LAMBDA d :
        IF d.n = 0 THEN z
        ELSE IF ~d.ok \/ d.sym > 285 THEN Bad
        ELSE IF d.sym < 256
        THEN [ZlibEmit(z, d.sym) EXCEPT !.bits = DropBits(bits, d.n)]
        ELSE IF d.sym = 256
        THEN [z EXCEPT !.bits = DropBits(bits, d.n), !.stage = "type"]
        ELSE [z EXCEPT !.bits = DropBits(bits, d.n),
                       !.length = LBase[d.sym - 256],
                       !.extra = LExt[d.sym - 256], !.stage = "lenext"])
    [] z.stage = "lenext" ->
        IF have < z.extra THEN z
        ELSE [z EXCEPT !.bits = DropBits(bits, z.extra),
                       !.length = @ + BitsAt(bits, 1, z.extra),
                       !.stage = "dist"]
    [] z.stage = "dist" ->
        Bind(HuffDecode(z.distcode, bits), LAMBDA d :
        IF d.n = 0 THEN z
        ELSE IF ~d.ok \/ d.sym > 29 THEN Bad
        ELSE [z EXCEPT !.bits = DropBits(bits, d.n),
                       !.offset = DBase[d.sym + 1],
                       !.extra = DExt[d.sym + 1], !.stage = "distext"])
    [] z.stage = "distext" ->
        IF have < z.extra THEN z
        ELSE IF z.offset + BitsAt(bits, 1, z.extra) > Len(z.win) THEN Bad
        ELSE ZlibMatch([z EXCEPT !.bits = DropBits(bits, z.extra),
                                 !.stage = "len"],
                       z.offset + BitsAt(bits, 1, z.extra), z.length)
    [] z.stage = "check" ->
        \* the Adler-32 of the output, most significant byte first
        IF have < 32 THEN z
        ELSE IF [i \in 1..4 |-> BitsAt(bits, 8 * i - 7, 8)] # AdlerBytes(z)
        THEN Bad
        ELSE [z EXCEPT !.bits = DropBits(bits, 32), !.stage = "eof"]

RECURSIVE ZlibRun(_)
\* inflate until it needs more input, fails, or reaches the end
ZlibRun(z) ==
    IF z.err # NoErr \/ z.stage = "eof" THEN z
    ELSE Bind(ZlibAdvance(z), LAMBDA n : IF n = z THEN z ELSE ZlibRun(n))

\* one input byte x through a decompressor.  Bytes after the end of the
\* stream are set aside (unused_data) and produce nothing.
ZlibStep(z, x) ==
    IF z.err # NoErr \/ z.stage = "eof" THEN z
    ELSE ZlibRun([z EXCEPT !.bits = @ \o ByteBits(x)])

RECURSIVE ZlibFeed(_, _, _, _)
\* the bytes lo..hi of a chunk through a decompressor, one after another
ZlibFeed(z, chunk, lo, hi) ==
    IF lo > hi THEN z
    ELSE IF lo = hi THEN ZlibStep(z, chunk[lo])
    ELSE Bind(ZlibFeed(z, chunk, lo, (lo + hi) \div 2), LAMBDA n :
              ZlibFeed(n, chunk, ((lo + hi) \div 2) + 1, hi))

\* decompressor.decompress(chunk): the bytes this call produces (out) and
\* the decompressor afterwards
Decompress(z, chunk) ==
    ZlibFeed([z EXCEPT !.out = <<>>], chunk, 1, Len(chunk))

\* Oodle.decompress(data, output_size), oodle.py lines 125-147: the output
\* array cannot have a negative length (ValueError); what OodleLZ_Decompress
\* then returns is decided by a library that is not part of the repository
\* ("OodleLZ_Decompress": the call was made)
OodleDecompress(data, output_size) ==
    IF output_size < 0 THEN "ValueError" ELSE "OodleLZ_Decompress"

RECURSIVE InflateLoop(_, _, _, _, _, _, _, _, _, _)
\* the while loop of lines 263-277 for one block, followed to its end:
\* remaining is decreased by the number of bytes read.  As in ExtractLoop a
\* negative remaining reads nothing while pos + remaining >= 0, then once
\* the bytes from pos to the end counted from the end of the view, then
\* nothing for ever ("Hang").  method is the compression of the entry and
\* expected the output size handed to Oodle.
InflateLoop(view, key, encrypted, method, expected, pos, remaining, z, pend, out) ==
    LET Res(e) == [pos |-> pos, err |-> e, data |-> out, pend |-> pend,
                   z |-> z]
        end == pos + Min(CHUNK, remaining)
    IN  IF remaining = 0 THEN Res(NoErr)
        ELSE IF end > Len(view) THEN Res("EOFError")
        ELSE IF method = "Oodle"
        THEN [pos |-> end,
              err |-> OodleDecompress(
                          IF encrypted
                          THEN DecryptorUpdate(key, pend,
                                               PySlice(view, pos, end)).out
                          ELSE PySlice(view, pos, end), expected),
              data |-> out, pend |-> pend, z |-> z]
        ELSE IF remaining < 0 /\ pos < 0 THEN Res("Hang")
        ELSE IF remaining < 0 /\ end >= 0
        THEN InflateLoop(view, key, encrypted, method, expected,
                         pos % (0 - remaining), remaining, z, pend, out)
        ELSE
        Bind(PySlice(view, pos, end), LAMBDA chunk :
        Bind(IF encrypted THEN DecryptorUpdate(key, pend, chunk)
             ELSE [pend |-> pend, out |-> chunk], LAMBDA dec :
        Bind(Decompress(z, dec.out), LAMBDA n :
        IF n.err # NoErr
        THEN [pos |-> end, err |-> n.err, data |-> out, pend |-> dec.pend,
              z |-> n]
        ELSE InflateLoop(view, key, encrypted, method, expected, end,
                         remaining - Len(chunk), n, dec.pend, out \o n.out))))

RECURSIVE BlockLoop(_, _, _, _, _, _, _, _, _)
\* the for loop of lines 253-277 over block_list from its i-th element on.
\* One decompressor z and one decryptor (pend) serve all the blocks;
\* total_written is the length of out.
BlockLoop(view, key, e, data_offset, i, z, pend, out, pos) ==
    IF i > Max(Len(e.blocks), 1)
    THEN [pos |-> pos, err |-> NoErr, data |-> out]
    ELSE
    Bind(IF e.blocks # <<>>
         THEN InflateLoop(view, key, e.is_encrypted, e.compression,
                          Min(e.compression_block_size, e.size - Len(out)),
                          data_offset + e.blocks[i].start,
                          e.blocks[i].end - e.blocks[i].start,
                          z, pend, out)
         ELSE InflateLoop(view, key, e.is_encrypted, e.compression, e.size,
                          data_offset, e.compressed_size, z, pend, out),
         LAMBDA b :
    IF b.err # NoErr THEN [pos |-> b.pos, err |-> b.err, data |-> b.data]
    ELSE BlockLoop(view, key, e, data_offset, i + 1, b.z, b.pend, b.data,
                   b.pos))

\* Entry.extract_file(reader, version, key, out) for an entry e.  The header
\* at e.offset is read and discarded, then the entry's own fields decide: an
\* unassigned compression slot raises AttributeError at line 210; the
\* cipher is built from whatever key is passed; a compression other than
\* NONE, Zlib and Oodle has no decompressor.  data is what has been written
\* to out when the call ends.
ExtractFile(e, r, version, key) ==
    Bind(EntryRead([r EXCEPT !.pos = e.offset], version), LAMBDA hd :
    IF hd.err # NoErr THEN [pos |-> hd.pos, err |-> hd.err, data |-> <<>>]
    ELSE IF e.compression = Unset
    THEN [pos |-> hd.pos, err |-> "AttributeError", data |-> <<>>]
    ELSE IF e.is_encrypted /\ ~AesKeySize(key)
    THEN [pos |-> hd.pos, err |-> "ValueError", data |-> <<>>]
    ELSE IF e.compression = "NONE" THEN
        IF ~e.is_encrypted /\ e.size < SMALL_FILE
        THEN Bind(ReaderRead([r EXCEPT !.pos = hd.pos], e.size), LAMBDA one :
                  [pos |-> one.pos, err |-> one.err, data |-> one.bytes])
        ELSE ExtractLoop(r.view, key, e.is_encrypted, hd.pos, e.size,
                         <<>>, <<>>)
    ELSE IF e.compression \in {"Zlib", "Oodle"}
    THEN BlockLoop(r.view, key, e, hd.pos, 1, Decompressobj, <<>>, <<>>,
                   hd.pos)
    ELSE [pos |-> hd.pos, err |-> "NotImplementedError", data |-> <<>>])


\* SHA-1 (FIPS 180-4).  A 32-bit word is the pair of its high and low 16
\* bits.
Word32(hi, lo) == <<hi, lo>>
Xor32(x, y) == <<Xor16(x[1], y[1]), Xor16(x[2], y[2])>>
And32(x, y) == <<And16(x[1], y[1]), And16(x[2], y[2])>>
Not32(x) == <<65535 - x[1], 65535 - x[2]>>
Add32(x, y) ==
    <<(x[1] + y[1] + ((x[2] + y[2]) \div 65536)) % 65536,
      (x[2] + y[2]) % 65536>>

\* x rotated left by n bits, 0 < n < 32
Rotl32(x, n) ==
    LET y == IF n >= 16 THEN <<x[2], x[1]>> ELSE x
        k == n % 16
    IN  IF k = 0 THEN y
        ELSE <<((y[1] * 2^k) % 65536) + (y[2] \div 2^(16 - k)),
               ((y[2] * 2^k) % 65536) + (y[1] \div 2^(16 - k))>>

\* the message padded: a bit 1, zeros up to 8 bytes before a multiple of
\* 64, and the length in bits in 8 bytes, most significant first
Sha1Pad(data) ==
    data \o <<128>> \o Zeros((119 - (Len(data) % 64)) % 64)
    \o <<0, 0, 0, (Len(data) \div 536870912) % 256,
         (Len(data) \div 2097152) % 256, (Len(data) \div 8192) % 256,
         (Len(data) \div 32) % 256, (8 * (Len(data) % 32)) % 256>>

RECURSIVE Sha1Schedule(_, _)
\* the message schedule w with n more words; the schedule of a block has 80
Sha1Schedule(w, n) ==
    IF n = 0 THEN w
    ELSE IF n = 1
    THEN Append(w, Rotl32(Xor32(Xor32(w[Len(w) - 2], w[Len(w) - 7]),
                                Xor32(w[Len(w) - 13], w[Len(w) - 15])), 1))
    ELSE Bind(Sha1Schedule(w, n \div 2), LAMBDA m :
              Sha1Schedule(m, n - (n \div 2)))

\* round t on the working words s = <<a, b, c, d, e>>
Sha1Round(s, w, t) ==
    LET f == IF t < 20
             THEN Xor32(And32(s[2], s[3]), And32(Not32(s[2]), s[4]))
             ELSE IF t \in 40..59
             THEN Xor32(Xor32(And32(s[2], s[3]), And32(s[2], s[4])),
                        And32(s[3], s[4]))
             ELSE Xor32(Xor32(s[2], s[3]), s[4])
        k == IF t < 20 THEN Word32(23170, 31129)
             ELSE IF t < 40 THEN Word32(28377, 60321)
             ELSE IF t < 60 THEN Word32(36635, 48348)
             ELSE Word32(51810, 49622)
    IN  <<Add32(Add32(Add32(Rotl32(s[1], 5), f), Add32(s[5], k)), w[t + 1]),
          s[1], Rotl32(s[2], 30), s[3], s[4]>>

RECURSIVE Sha1Rounds(_, _, _, _)
\* the rounds lo..hi, one after another
Sha1Rounds(s, w, lo, hi) ==
    IF lo = hi THEN Sha1Round(s, w, lo)
    ELSE Bind(Sha1Rounds(s, w, lo, (lo + hi) \div 2), LAMBDA m :
              Sha1Rounds(m, w, ((lo + hi) \div 2) + 1, hi))

RECURSIVE Sha1Blocks(_, _, _)
\* the hash value after the 64-byte blocks of msg from byte i on
Sha1Blocks(h, msg, i) ==
    IF i > Len(msg) THEN h
    ELSE Bind(Sha1Schedule(Tuple([t \in 1..16 |->
                  Word32(256 * msg[i + 4 * t - 4] + msg[i + 4 * t - 3],
                         256 * msg[i + 4 * t - 2] + msg[i + 4 * t - 1])]),
                           64), LAMBDA w :
         Bind(Sha1Rounds(h, w, 0, 79), LAMBDA s :
         Sha1Blocks(Tuple([k \in 1..5 |-> Add32(h[k], s[k])]), msg, i + 64)))

\* hashlib.sha1(data).digest()
Sha1(data) ==
    Bind(Sha1Blocks(<<Word32(26437, 8961), Word32(61389, 43913),
                      Word32(39098, 56574), Word32(4146, 21622),
                      Word32(50130, 57840)>>, Sha1Pad(data), 1), LAMBDA h :
    Concat([k \in 1..5 |-> <<h[k][1] \div 256, h[k][1] % 256,
                             h[k][2] \div 256, h[k][2] % 256>>]))

(***************************************************************************)
(* file_io.py: Writer.  Writes are appends, so a writer is the bytes       *)
(* written (the cursor is their length), the capacity of its buffer or     *)
(* mapped file, whether it is in memory, and the exception its last call   *)
(* raised.                                                                 *)
(***************************************************************************)
INITIAL_SIZE == 1024

\* Writer(): in memory, a bytearray of INITIAL_SIZE bytes under a memoryview
NewWriter ==
    [err |-> NoErr, size |-> INITIAL_SIZE, buf |-> <<>>, mem |-> TRUE]

\* Writer(path): a mapped file of INITIAL_SIZE bytes
FileWriter == [NewWriter EXCEPT !.mem = FALSE]

\* Writer._ensure(needed): a mapped file grows by doubling; the bytearray
\* cannot be extended while the memoryview exports it: BufferError
WriterEnsure(w, needed) ==
    IF Len(w.buf) + needed <= w.size THEN [w EXCEPT !.err = NoErr]
    ELSE IF w.mem THEN [w EXCEPT !.err = "BufferError"]
    ELSE [w EXCEPT !.size = Max(w.size * 2, Len(w.buf) + needed),
                   !.err = NoErr]

\* Writer.write(bytes), and a typed write of a value that fits its format
WriterWrite(w, bytes) ==
    Bind(WriterEnsure(w, Len(bytes)), LAMBDA e :
    IF e.err # NoErr THEN e ELSE [e EXCEPT !.buf = @ \o bytes])

\* Writer.uint8(v) / uint32(v) / uint64(v): _ensure, then struct.pack_into,
\* which raises struct.error for a value outside the format
WriterUint(w, width, v) ==
    Bind(WriterEnsure(w, width), LAMBDA e :
    IF e.err # NoErr THEN e
    ELSE IF v < 0 \/ (width < 4 /\ v >= 256^width)
    THEN [e EXCEPT !.err = "StructError"]
    ELSE [e EXCEPT !.buf = @ \o LE(v, width)])

RECURSIVE WriterWrites(_, _)
\* the writes of the parts one after another, up to the first that raises
WriterWrites(w, parts) ==
    IF parts = <<>> THEN [w EXCEPT !.err = NoErr]
    ELSE Bind(WriterWrite(w, Head(parts)), LAMBDA n :
         IF n.err # NoErr THEN n ELSE WriterWrites(n, Tail(parts)))

RECURSIVE WriterUints(_, _)
\* the typed writes of the fields, each <<width, value>>, one after another
\* up to the first that raises
WriterUints(w, fields) ==
    IF fields = <<>> THEN [w EXCEPT !.err = NoErr]
    ELSE Bind(WriterUint(w, Head(fields)[1], Head(fields)[2]), LAMBDA n :
         IF n.err # NoErr THEN n ELSE WriterUints(n, Tail(fields)))

\* str.encode("utf-16le") for a str without lone surrogates
Utf16Char(c) ==
    IF c < 65536 THEN LE(c, 2)
    ELSE LE(55296 + ((c - 65536) \div 1024), 2)
         \o LE(56320 + ((c - 65536) % 1024), 2)

Utf16le(str) == Concat([i \in 1..Len(str) |-> Utf16Char(str[i])])

\* a lone surrogate cannot be encoded
Encodable(str) == \A i \in 1..Len(str) : str[i] \notin 55296..57343

\* struct "<i" pack of an integer above -2^31
I32(n) == IF n >= 0 THEN LE(n, 4) ELSE [i \in 1..4 |-> 255 - LE(0 - n - 1, 4)[i]]

\* str.isascii()
IsAscii(str) == \A i \in 1..Len(str) : str[i] < 128

\* Writer.string(value): the NUL is appended, then an ASCII value is
\* written after its length, any other value as UTF-16LE after minus its
\* number of code units
WriterString(w, value) ==
    Bind(Append(value, 0), LAMBDA v :
    Bind(IF IsAscii(v) THEN WriterWrites(w, <<LE(Len(v), 4), v>>)
         ELSE IF ~Encodable(v) THEN [w EXCEPT !.err = "UnicodeEncodeError"]
         ELSE WriterWrites(w, <<I32(0 - (Len(Utf16le(v)) \div 2)),
                                Utf16le(v)>>), LAMBDA w1 :
    [err |-> w1.err, writer |-> w1]))

\* Footer.write, lines 102-122, on the writer w, up to the first call that
\* raises: the magic, the wire version, the index offset and size and the
\* hash are written; at V9 line 114 calls writer.uint, a method Writer does
\* not have: AttributeError, with these 44 bytes written; at any other
\* version the zeroed compression-name slots follow, four at V8A, five
\* above, none below.
FooterTail(w, version, offset, size, hash) ==
    Bind(WriterUints(w, <<<<4, PAK_MAGIC>>,
                          <<4, IF version >= 9 THEN version - 1 ELSE version>>,
                          <<8, offset>>, <<8, size>>>>), LAMBDA w1 :
    IF w1.err # NoErr THEN w1
    ELSE
    Bind(WriterWrite(w1, hash), LAMBDA w2 :
    IF w2.err # NoErr THEN w2
    ELSE IF version = V9 THEN [w2 EXCEPT !.err = "AttributeError"]
    ELSE WriterWrite(w2, Zeros(32 * (IF version = V8A THEN 4
                                     ELSE IF version > V8A THEN 5 ELSE 0)))))

\* Footer.write(writer, version, offset, size, hash): the writes it makes
\* on the writer w, one after another up to the first that raises; bytes is
\* what this call wrote.  Writer has uint8..uint128 but no method uint, so
\* line 100 raises AttributeError for every version >= V4, after the 16 key
\* bytes of a version >= V7 were written; below V4 the lines from the magic
\* on follow.
FooterWrite(w, version, offset, size, hash) ==
    LET Done(x) == [err |-> x.err,
                    bytes |-> SubSeq(x.buf, Len(w.buf) + 1, Len(x.buf)),
                    writer |-> x]
    IN  Bind(IF version >= V7 THEN WriterWrite(w, Zeros(16))
             ELSE [w EXCEPT !.err = NoErr], LAMBDA w1 :
        IF w1.err # NoErr THEN Done(w1)
        ELSE IF version >= V4 THEN Done([w1 EXCEPT !.err = "AttributeError"])
        ELSE Bind(FooterTail(w1, version, offset, size, hash), LAMBDA w2 :
             Done(w2)))

\* the bytes Entry.write_data emits for data at writer position offset
EntryData(offset, data, version) ==
    LE(offset, 8) \o LE(Len(data), 8) \o LE(Len(data), 8)
    \o (IF version = V8A THEN LE(0, 1) ELSE LE(0, 4))
    \o (IF version = V1 THEN LE(0, 8) ELSE <<>>)
    \o Sha1(data)
    \o (IF version >= V3 THEN LE(0, 1) \o LE(0, 4) ELSE <<>>)
    \o data

\* Entry.write_data(writer, version): the fields it assigns and the writes
\* it makes, one after another; the hash is assigned when the writes in
\* front of it are done
write_data(e, w, version) ==
    Bind([e EXCEPT !.offset = Len(w.buf), !.size = Len(e.data),
                   !.compressed_size = Len(e.data)], LAMBDA e1 :
    Bind(WriterWrites(w, <<LE(Len(w.buf), 8), LE(Len(e.data), 8),
                           LE(Len(e.data), 8),
                           IF version = V8A THEN LE(0, 1) ELSE LE(0, 4),
                           IF version = V1 THEN LE(0, 8) ELSE <<>>>>),
         LAMBDA w1 :
    IF w1.err # NoErr THEN [err |-> w1.err, entry |-> e1, writer |-> w1]
    ELSE
    Bind(Sha1(e.data), LAMBDA digest :
    Bind(WriterWrites(w1, <<digest,
                            IF version >= V3 THEN LE(0, 1) ELSE <<>>,
                            IF version >= V3 THEN LE(0, 4) ELSE <<>>,
                            e.data>>), LAMBDA w2 :
    [err |-> w2.err, entry |-> [e1 EXCEPT !.hash = digest],
     writer |-> w2]))))

(***************************************************************************)
(* The encoded form of an entry.  Its offsets and sizes are numbers of     *)
(* eight digits (W).                                                       *)
(***************************************************************************)
\* align(x) = (x + 15) & ~15
WAlign(x) ==
    Bind(WAdd(x, W(15)), LAMBDA y : [y EXCEPT ![1] = y[1] - (y[1] % 16)])

\* value <= UINT32_MAX
Is32BitSafe(x) == SubSeq(x, 5, 8) = Zeros(4)

\* bit k of an integer n >= 0
Bit(n, k) == IF k > 30 THEN 0 ELSE (n \div 2^k) % 2

\* bit i of the flags of lines 418-429 for a block count and a name + 1
\* that are not negative: the | of the six block-size bits, the block count
\* << 6, is_encrypted << 22, (name + 1) << 23 and the three 32-bit-safe
\* bits.  A block count of 2^16 or more reaches the bits from 22 on, a
\* name + 1 of 64 or more the bits from 29 on
FlagsBit(i, bs6, count, encrypted, name, safe29, safe30, safe31) ==
    IF \/ i < 6 /\ Bit(bs6, i) = 1
       \/ i >= 6 /\ Bit(count, i - 6) = 1
       \/ i = 22 /\ encrypted
       \/ i >= 23 /\ Bit(name, i - 23) = 1
       \/ i = 29 /\ safe29
       \/ i = 30 /\ safe30
       \/ i = 31 /\ safe31
    THEN 1 ELSE 0

\* the low 32 bits of the flags, as the four bytes of struct "<I"
EncodedFlags(bs6, count, encrypted, name, safe29, safe30, safe31) ==
    LET B(i) == FlagsBit(i, bs6, count, encrypted, name, safe29, safe30,
                         safe31)
    IN  [k \in 1..4 |->
            B(8 * k - 8) + 2 * B(8 * k - 7) + 4 * B(8 * k - 6)
            + 8 * B(8 * k - 5) + 16 * B(8 * k - 4) + 32 * B(8 * k - 3)
            + 64 * B(8 * k - 2) + 128 * B(8 * k - 1)]

\* writer.uint32(flags), line 431: _ensure, then struct.pack_into, which
\* raises struct.error for flags that are negative (a negative block count
\* or name + 1) or have a bit above bit 31 (a block count of 2^26 or more,
\* a name + 1 of 512 or more)
WriterFlags(w, bs6, count, encrypted, name, safe29, safe30, safe31) ==
    Bind(WriterEnsure(w, 4), LAMBDA n :
    IF n.err # NoErr THEN n
    ELSE IF count < 0 \/ name < 0 THEN [n EXCEPT !.err = "StructError"]
    ELSE IF \E i \in 32..61 :
                FlagsBit(i, bs6, count, encrypted, name, safe29, safe30,
                         safe31) = 1
    THEN [n EXCEPT !.err = "StructError"]
    ELSE [n EXCEPT !.buf = @ \o EncodedFlags(bs6, count, encrypted, name,
                                             safe29, safe30, safe31)])

\* Entry.write_encoded(writer, version).  Line 412 replaces the entry's
\* block size by 0x3F when it is not (bits 11..16) << 11; the flags keep the
\* six bits computed before, and the u32 written after them is the replaced
\* value.  The function ends after the size: no compressed size and no
\* block sizes are written.
WriteEncoded(e, w, version) ==
    LET bs == e.compression_block_size
        bs6 == ((bs[2] \div 8) + 32 * bs[3]) % 64
        e1 == IF W(bs6 * 2048) # bs
              THEN [e EXCEPT !.compression_block_size = W(63)] ELSE e
        safe29 == Is32BitSafe(e.compressed_size)
        safe30 == Is32BitSafe(e.size)
        safe31 == Is32BitSafe(e.offset)
        name == IF e.compressio_name = NoName THEN 0 ELSE e.compressio_name + 1
        w0 == WriterFlags(w, bs6, e.compression_block_count, e.is_encrypted,
                          name, safe29, safe30, safe31)
        w1 == IF w0.err # NoErr THEN w0
              ELSE WriterWrites(w0,
                  <<IF e1.compression_block_size = W(63)
                    THEN LE(63, 4) ELSE <<>>,
                    IF safe31 THEN SubSeq(e.offset, 1, 4) ELSE e.offset,
                    IF safe30 THEN SubSeq(e.size, 1, 4) ELSE e.size>>)
    IN  [err |-> w1.err, entry |-> e1, writer |-> w1]

\* read_varint(bit) of read_encoded: a u32 when the bit of the flags word
\* is set, else a u64
ReadVarint(r, set) ==
    Bind(ReaderUnpack(r, IF set THEN 4 ELSE 8), LAMBDA u :
         [pos |-> u.pos, err |-> u.err,
          val |-> IF u.err # NoErr THEN W(0)
                  ELSE u.bytes \o Zeros(8 - Len(u.bytes))])

RECURSIVE ReadBlocks(_, _, _, _, _)
\* the loop of lines 175-182: left block sizes to read, index the start of
\* the next block.  The sums stay below 2^64: the flags hold at most 65535
\* blocks and a block size is a u32
ReadBlocks(r, left, index, encrypted, acc) ==
    IF left = 0 THEN [pos |-> r.pos, err |-> NoErr, blocks |-> acc]
    ELSE
    Bind(ReadVarint(r, TRUE), LAMBDA u :
    IF u.err # NoErr THEN [pos |-> u.pos, err |-> u.err, blocks |-> acc]
    ELSE ReadBlocks([r EXCEPT !.pos = u.pos], left - 1,
                    WAdd(index, IF encrypted THEN WAlign(u.val) ELSE u.val),
                    encrypted,
                    Append(acc, Block(index, WAdd(index, u.val)))))

\* Entry.read_encoded(reader, version, compressions), called on the class:
\* the fields are assigned to a temporary Entry that is returned
ReadEncoded(r, version, compressions) ==
    LET Bad(e, q) == [pos |-> q, err |-> e, entry |-> NewEntry]
        At(q) == [r EXCEPT !.pos = q]
    IN  Bind(ReaderUnpack(r, 4), LAMBDA d :
        IF d.err # NoErr THEN Bad(d.err, d.pos) ELSE
        Bind([encrypted |-> (d.bytes[3] \div 64) % 2 = 1,
              count |-> (d.bytes[1] \div 64) + 4 * d.bytes[2]
                        + 1024 * (d.bytes[3] % 64),
              bs6 |-> d.bytes[1] % 64,
              name |-> (d.bytes[3] \div 128) + 2 * (d.bytes[4] % 32),
              bit31 |-> d.bytes[4] \div 128 = 1,
              bit30 |-> (d.bytes[4] \div 64) % 2 = 1,
              bit29 |-> (d.bytes[4] \div 32) % 2 = 1], LAMBDA f :
        IF f.name + 1 > Len(compressions) THEN Bad("IndexError", d.pos) ELSE
        Bind(IF f.bs6 = 63 THEN ReadVarint(At(d.pos), TRUE)
             ELSE [pos |-> d.pos, err |-> NoErr, val |-> W(f.bs6 * 2048)],
             LAMBDA bs :
        IF bs.err # NoErr THEN Bad(bs.err, bs.pos) ELSE
        Bind(ReadVarint(At(bs.pos), f.bit31), LAMBDA off :
        IF off.err # NoErr THEN Bad(off.err, off.pos) ELSE
        Bind(ReadVarint(At(off.pos), f.bit30), LAMBDA sz :
        IF sz.err # NoErr THEN Bad(sz.err, sz.pos) ELSE
        Bind(IF compressions[f.name + 1] = "NONE" THEN sz
             ELSE ReadVarint(At(sz.pos), f.bit29), LAMBDA cs :
        IF cs.err # NoErr THEN Bad(cs.err, cs.pos) ELSE
        Bind(W(get_serialized_size(version,
                                   compressions[f.name + 1] # "NONE",
                                   f.count)), LAMBDA offset_base :
        Bind(IF f.count = 1 /\ ~f.encrypted
             THEN [pos |-> cs.pos, err |-> NoErr,
                   blocks |-> <<Block(offset_base,
                                      WSum(offset_base, cs.val))>>]
             ELSE IF f.count > 0
             THEN ReadBlocks(At(cs.pos), f.count, offset_base, f.encrypted,
                             <<>>)
             ELSE [pos |-> cs.pos, err |-> NoErr, blocks |-> <<>>],
             LAMBDA bl :
        IF bl.err # NoErr THEN Bad(bl.err, bl.pos) ELSE
        [pos |-> bl.pos, err |-> NoErr,
         entry |-> [NewEntry EXCEPT
                       !.compression = compressions[f.name + 1],
                       !.is_encrypted = f.encrypted,
                       !.compression_block_count = f.count,
                       !.compression_block_size = bs.val,
                       !.offset = off.val,
                       !.size = sz.val,
                       !.compressed_size = cs.val,
                       !.blocks = bl.blocks]]))))))))

\* Entry.write(writer, version): the header of an index record.  The hash
\* slot must hold 20 bytes (Writer.sha1); from V3 on the flags byte is
\* written and its result assigned to self.flags, which is not a slot of
\* Entry: AttributeError, nothing after the flags byte is written.  No
\* compression method and no block list are written for any entry.
EntryWrite(e, w, version) ==
    Bind(WriterUints(w, <<<<8, e.offset>>, <<8, e.size>>,
                          <<8, e.compressed_size>>,
                          <<IF version = V8A THEN 1 ELSE 4, 0>>>>
                        \o (IF version = V1 THEN <<<<8, 0>>>> ELSE <<>>)),
         LAMBDA w1 :
    IF w1.err # NoErr THEN [err |-> w1.err, writer |-> w1]
    ELSE IF e.hash = NoHash THEN [err |-> "AttributeError", writer |-> w1]
    ELSE IF Len(e.hash) # 20 THEN [err |-> "ValueError", writer |-> w1]
    ELSE
    Bind(WriterWrites(w1, <<e.hash,
                            IF version >= V3 THEN LE(0, 1) ELSE <<>>>>),
         LAMBDA w2 :
    [err |-> IF w2.err # NoErr THEN w2.err
             ELSE IF version >= V3 THEN "AttributeError" ELSE NoErr,
     writer |-> w2]))

(***************************************************************************)
(* index.py                                                                *)
(***************************************************************************)
\* "../../../", as its code points
DefaultMountPoint == <<46, 46, 47, 46, 46, 47, 46, 46, 47>>

\* the entry with its 64-bit fields as write_encoded takes them
Wide(e) ==
    [e EXCEPT !.offset = W(e.offset), !.size = W(e.size),
              !.compressed_size = W(e.compressed_size),
              !.compression_block_size = W(e.compression_block_size)]

\* Entry.write_encoded(writer, version) for an entry whose fields are
\* integers, one of them negative.  >> and & are those of Python: the six
\* bits of a negative block size are those of its floor quotient by 2048.
\* A negative value is 32-bit safe and uint32 refuses it; a negative block
\* count or name makes the flags word negative; the compressed size is
\* never written.
WriteEncodedNegative(e, w) ==
    LET bs == e.compression_block_size
        bs6 == (bs \div 2048) % 64
        e1 == IF bs6 * 2048 # bs
              THEN [e EXCEPT !.compression_block_size = 63] ELSE e
        name == IF e.compressio_name = NoName THEN 0 ELSE e.compressio_name + 1
        w1 == WriterFlags(w, bs6, e.compression_block_count, e.is_encrypted,
                          name, TRUE, TRUE, TRUE)
        w2 == IF w1.err # NoErr THEN w1
              ELSE WriterUints(w1, (IF e1.compression_block_size = 63
                                    THEN <<<<4, 63>>>> ELSE <<>>)
                                   \o <<<<4, e.offset>>, <<4, e.size>>>>)
    IN  [err |-> w2.err, entry |-> e1, writer |-> w2]

\* an integer field of the entry is negative
HasNegative(e) ==
    \/ e.offset < 0 \/ e.size < 0 \/ e.compressed_size < 0
    \/ e.compression_block_size < 0 \/ e.compression_block_count < 0
    \/ e.compressio_name < NoName

RECURSIVE IndexEncoded(_, _, _, _)
\* lines 181-183: write_encoded of every entry into the Writer() of the
\* encoded entries; an entry whose block size is no multiple of 2048 below
\* 63 * 2048 is left with the block size 0x3F
IndexEncoded(items, i, version, w) ==
    IF i > Len(items) THEN [err |-> NoErr, writer |-> w, items |-> items]
    ELSE
    Bind(IF HasNegative(items[i].e)
         THEN WriteEncodedNegative(items[i].e, w)
         ELSE WriteEncoded(Wide(items[i].e), w, version), LAMBDA x :
    Bind(IF x.entry.compression_block_size
                = (IF HasNegative(items[i].e) THEN 63 ELSE W(63))
         THEN [items EXCEPT ![i].e.compression_block_size = 63]
         ELSE items, LAMBDA done :
    IF x.err # NoErr
    THEN [err |-> x.err, writer |-> x.writer, items |-> done]
    ELSE IndexEncoded(done, i + 1, version, x.writer)))

RECURSIVE IndexRecords(_, _, _, _)
\* lines 213-215: the path and the full-form header of every entry
IndexRecords(items, i, version, w) ==
    IF i > Len(items) THEN [err |-> NoErr, writer |-> w]
    ELSE
    Bind(WriterString(w, items[i].path), LAMBDA ws :
    IF ws.err # NoErr THEN ws
    ELSE
    Bind(EntryWrite(items[i].e, ws.writer, version), LAMBDA x :
    IF x.err # NoErr THEN x
    ELSE IndexRecords(items, i + 1, version, x.writer)))

\* Index.write(writer, version) as PakFile.write calls it: the mount point
\* is the default "../../../".  The paths are strings of code points.
\* offset is assigned from the writer position and the index is built in
\* Writer() buffers; no byte reaches the writer, for every path ends in an
\* exception:
\*   V10+      what write_encoded raises (BufferError when the encoded
\*             entries outgrow their buffer, struct.error for a negative
\*             field), else line 186 reads encoded_entries.file (Writer has
\*             no file): AttributeError;
\*   below     what Writer.string of a path raises (BufferError when the
\*             records outgrow the index buffer, UnicodeEncodeError), what
\*             Entry.write raises (BufferError, struct.error for a negative
\*             field; from V3 on line 406 assigns self.flags, not among
\*             Entry.__slots__: AttributeError); otherwise line 217 reads
\*             index_buf.file: AttributeError.
IndexWrite(items, version, w) ==
    Bind(WriterUint(WriterString(NewWriter, DefaultMountPoint).writer, 4,
                    Len(items)),
         LAMBDA index_buf :
    Bind(IF version >= V10
         THEN IndexEncoded(items, 1, version, NewWriter)
         ELSE [err |-> IndexRecords(items, 1, version, index_buf).err,
               writer |-> NewWriter, items |-> items], LAMBDA x :
    [err |-> IF x.err # NoErr THEN x.err ELSE "AttributeError",
     offset |-> Len(w.buf),
     size |-> 0, hash |-> Zeros(20), writer |-> w, items |-> x.items]))


(***************************************************************************)
(* pak.py: the PakFile facade and the files it touches.                    *)
(***************************************************************************)
VARIABLES
    version,   \* PakFile.version
    key,       \* PakFile.key
    entrys,    \* PakFile._index.entrys: the dict, as its items in order
    reader,    \* PakFile.reader
    footer,    \* PakFile._footer.version
    mount_point,      \* PakFile.mount_point
    path_hash_seed,   \* PakFile.path_hash_seed
    disk,      \* the files: name -> content or NoFile
    ntmp,      \* temporary files created so far
    last,      \* the last call: operation, argument, exception, return value
    added,     \* history: the (path, bytes) pairs add_file stored, in order
    nops,      \* history: calls made so far
    codec      \* the codec functions applied on their own: input and result

vars == <<version, key, entrys, reader, footer, mount_point, path_hash_seed,
          disk, ntmp, last, added, nops, codec>>


\* ---- bounds of the model ----
\* calls on one PakFile that are followed
MaxOps == 4
\* calls of write followed (each may leave a temporary file behind)
MaxWrites == 2
\* number of zero bytes that stand for payloads and index in front of a
\* footer
PrefixLen == 210

\* the paths "dir/a", "top" and "dir/b", as their code points
DirA == <<100, 105, 114, 47, 97>>
Top == <<116, 111, 112>>
DirB == <<100, 105, 114, 47, 98>>
Paths == {DirA, Top, DirB}
Datas == {<<>>, <<7>>, <<8, 9>>}
Files == {"a.pak", "sub/b.pak"}

\* a name with no file, and a file of the given bytes followed by pad zero
\* bytes
NoFile == [bytes |-> <<>>, exists |-> FALSE, pad |-> 0]
File(bytes, pad) == [bytes |-> bytes, exists |-> TRUE, pad |-> pad]
\* what a reader maps of a file: its bytes and the zero bytes up to its size
FileBytes(c) == c.bytes \o Zeros(c.pad)

\* names on disk: <<f, 0>> is the file f itself, <<f, k>> the k-th fresh
\* name tempfile.NamedTemporaryFile makes for destination f
Name(f) == <<f, 0>>
Tmp(f, k) == <<f, k>>
AllFiles == Files \X (0..(MaxWrites + 1))

\* os.path.dirname(file), as the list of its components
Dirname(f) == IF f = "sub/b.pak" THEN <<"sub">> ELSE <<>>
\* the directory of os.path.join(dir, prefix + name + suffix) with
\* dir = dirname(file) and prefix = file + ".": the directory part of file
\* appears twice when file has one
TmpDir(f) == Dirname(f) \o Dirname(f)
ExistingDirs == {<<>>, <<"sub">>}

DefaultKey == Zeros(32)

\* ---- the dict PakFile._index.entrys ----
Item(p, e) == [e |-> e, path |-> p]
Keys(items) == [i \in 1..Len(items) |-> items[i].path]
Has(items, p) == \E i \in 1..Len(items) : items[i].path = p
IndexOf(items, p) == CHOOSE i \in 1..Len(items) : items[i].path = p
Get(items, p) == items[IndexOf(items, p)].e
\* d[p] = e: an existing key keeps its place, a new key goes last
DictSet(items, p, e) ==
    IF Has(items, p) THEN [items EXCEPT ![IndexOf(items, p)] = Item(p, e)]
    ELSE Append(items, Item(p, e))
\* del d[p]
DictDel(items, p) ==
    LET i == IndexOf(items, p)
    IN  SubSeq(items, 1, i - 1) \o SubSeq(items, i + 1, Len(items))

Call(op, arg, err, ret) == [err |-> err, op |-> op, arg |-> arg, ret |-> ret]

\* PakFile.__init__ (with the files that exist beforehand)
InitialFiles == {NoFile, File(<<79, 76, 68>>, 0)}

PakInit ==
    /\ version = V11
    /\ key = DefaultKey
    /\ entrys = <<>>
    /\ reader = NewReader
    /\ footer = NoVersion
    /\ mount_point = DefaultMountPoint
    /\ path_hash_seed = 0
    /\ ntmp = 0
    /\ added = <<>>
    /\ nops = 0
    /\ last = Call("init", None, NoErr, None)

Init ==
    /\ PakInit
    /\ \E c \in InitialFiles :
           disk = [n \in AllFiles |-> IF n = Name("a.pak") THEN c ELSE NoFile]
    /\ codec = [stage |-> "idle"]

\* PakFile.set_version(version)
set_version(v) ==
    /\ version' = v
    /\ last' = Call("set_version", v, NoErr, None)
    /\ UNCHANGED <<key, entrys, reader, footer, mount_point, path_hash_seed,
                   disk, ntmp, added, codec>>

\* PakFile.add_file(path, data)
add_file(p, d) ==
    /\ entrys' = DictSet(entrys, p, [NewEntry EXCEPT !.data = d])
    /\ added' = DictSet(added, p, d)
    /\ last' = Call("add_file", p, NoErr, None)
    /\ UNCHANGED <<version, key, reader, footer, mount_point, path_hash_seed,
                   disk, ntmp, codec>>

\* a removal that drops the last item whatever the path
RemoveEntry_DropsLast(items, p) == SubSeq(items, 1, Len(items) - 1)

\* the dict after PakFile.remove_file(path) for a path it holds
RemoveEntry(items, p) == DictDel(items, p)

\* PakFile.remove_file(path)
remove_file(p) ==
    /\ IF Has(entrys, p)
       THEN /\ entrys' = RemoveEntry(entrys, p)
            /\ added' = DictDel(added, p)
            /\ last' = Call("remove_file", p, NoErr, None)
       ELSE /\ last' = Call("remove_file", p, "KeyError", None)
            /\ UNCHANGED <<entrys, added>>
    /\ UNCHANGED <<version, key, reader, footer, mount_point, path_hash_seed,
                   disk, ntmp, codec>>

\* PakFile.read_file(path): dict.get, KeyError for None (an Entry is always
\* truthy), else extract_file into a buffer
read_file(p) ==
    /\ IF ~Has(entrys, p)
       THEN /\ last' = Call("read_file", p, "KeyError", None)
            /\ UNCHANGED reader
       ELSE \E x \in {ExtractFile(Get(entrys, p), reader, version, key)} :
                /\ last' = Call("read_file", p, x.err,
                                IF x.err = NoErr THEN x.data ELSE None)
                /\ reader' = [reader EXCEPT !.pos = x.pos]
    /\ UNCHANGED <<version, key, entrys, footer, mount_point, path_hash_seed,
                   disk, ntmp, added, codec>>


\* PakFile.read(file), lines 156-164, on a byte source that Reader(file)
\* could open.  Footer.read never returns (see FooterRead), so the
\* assignments of lines 161-164 (version, Index.read) are not reached; the
\* new reader and the new footer with the detected version stay behind.
PakRead(path, bytes) ==
    Bind(FooterRead(bytes), LAMBDA fr :
    [err |-> fr.err, reader |-> [OpenReader(path, bytes) EXCEPT !.pos = fr.pos],
     detected |-> fr.version])

\* Reader(file) for a path: open() and mmap of the file
OpenFile(c) ==
    IF ~c.exists THEN "FileNotFoundError"
    ELSE IF FileBytes(c) = <<>> THEN "ValueError"
    ELSE NoErr

\* PakFile.read(file) with a path
read_path(f) ==
    /\ IF OpenFile(disk[Name(f)]) # NoErr
       THEN /\ last' = Call("read", f, OpenFile(disk[Name(f)]), None)
            /\ UNCHANGED <<reader, footer>>
       ELSE \E r \in {PakRead(f, FileBytes(disk[Name(f)]))} :
                /\ reader' = r.reader
                /\ footer' = r.detected
                /\ last' = Call("read", f, r.err, r.detected)
    /\ UNCHANGED <<version, key, entrys, mount_point, path_hash_seed, disk,
                   ntmp, added, codec>>

\* PakFile.read(file) with bytes
read_bytes(b) ==
    \E r \in {PakRead(None, b)} :
        /\ reader' = r.reader
        /\ footer' = r.detected
        /\ last' = Call("read_bytes", b, r.err, r.detected)
        /\ UNCHANGED <<version, key, entrys, mount_point, path_hash_seed,
                       disk, ntmp, added, codec>>

\* Reader.reopen (the second definition, line 247, is the one the class
\* keeps): close, then __init__ again with the path, or with b"" when the
\* reader has no path, and with the endian of the reader.  __init__ assigns
\* path, size and pos before set_endian, which raises KeyError for an
\* endian that is no key of _STRUCTS: the reader is left closed and empty
ReaderReopen(r, d) ==
    IF r.endian \notin Endians
    THEN [NewReader EXCEPT !.open = FALSE, !.endian = r.endian,
                           !.structs = r.structs]
    ELSE IF r.path = None
    THEN [NewReader EXCEPT !.endian = r.endian, !.structs = r.endian]
    ELSE [OpenReader(r.path, FileBytes(d[Name(r.path)]))
              EXCEPT !.endian = r.endian, !.structs = r.endian]

RECURSIVE StreamEntries(_, _, _, _, _)
\* the loop of PakFile.write, lines 183-190, from item i on.  An entry whose
\* data is None or empty is falsy and is fetched with read_file first.
StreamEntries(items, i, w, r, ver) ==
    IF i > Len(items)
    THEN [err |-> NoErr, reader |-> r, writer |-> w, items |-> items]
    ELSE
    Bind(items[i].e, LAMBDA e :
    Bind(IF e.data # NoData /\ e.data # <<>>
         THEN [pos |-> r.pos, err |-> NoErr, data |-> e.data]
         ELSE EntryReadFile(r, ver), LAMBDA rf :
    IF rf.err # NoErr
    THEN [err |-> rf.err, reader |-> [r EXCEPT !.pos = rf.pos], writer |-> w,
          items |-> items]
    ELSE
    Bind(write_data([e EXCEPT !.data = rf.data], w, ver), LAMBDA wd :
    IF wd.err # NoErr
    THEN [err |-> wd.err, reader |-> r,
          writer |-> wd.writer, items |-> [items EXCEPT ![i].e = wd.entry]]
    ELSE
    Bind([items EXCEPT ![i].e = [wd.entry EXCEPT !.data = NoData]],
         LAMBDA done :
    StreamEntries(done, i + 1, wd.writer, r, ver)))))

\* a writer opened on the destination itself
WriterPath_InPlace(f, k) == Name(f)

\* the file the Writer of PakFile.write is opened on: the temporary file
WriterPath(f, k) == Tmp(f, k)

\* PakFile.write(file)
write(f) ==
    /\ ntmp < MaxWrites
    /\ \E r0 \in {ReaderReopen(reader, disk)} :
       \E st \in {StreamEntries(entrys, 1, FileWriter, r0, version)} :
       LET tmp == WriterPath(f, ntmp + 1)
           iw == IndexWrite(st.items, version, st.writer)
           fw == FooterWrite(iw.writer, version, iw.offset, iw.size, iw.hash)
           unclosed(w) == File(w.buf, w.size - Len(w.buf))
       IN  IF TmpDir(f) \notin ExistingDirs
           THEN \* NamedTemporaryFile cannot create the file
                /\ reader' = r0
                /\ last' = Call("write", f, "FileNotFoundError", None)
                /\ UNCHANGED <<entrys, disk, ntmp>>
           ELSE IF st.err # NoErr
           THEN /\ reader' = st.reader
                /\ entrys' = st.items
                /\ disk' = [disk EXCEPT ![tmp] = unclosed(st.writer)]
                /\ ntmp' = ntmp + 1
                /\ last' = Call("write", f, st.err, None)
           ELSE IF iw.err # NoErr
           THEN /\ reader' = ReaderClose(st.reader)
                /\ entrys' = iw.items
                /\ disk' = [disk EXCEPT ![tmp] = unclosed(st.writer)]
                /\ ntmp' = ntmp + 1
                /\ last' = Call("write", f, iw.err, None)
           ELSE IF fw.err # NoErr
           THEN /\ reader' = ReaderClose(st.reader)
                /\ entrys' = iw.items
                /\ disk' = [disk EXCEPT ![tmp] = unclosed(fw.writer)]
                /\ ntmp' = ntmp + 1
                /\ last' = Call("write", f, fw.err, None)
           ELSE \* writer.close() truncates, os.replace renames over file
                /\ reader' = ReaderClose(st.reader)
                /\ entrys' = iw.items
                /\ disk' = [disk EXCEPT
                               ![tmp] = NoFile,
                               ![Name(f)] =
                                   File(fw.writer.buf, 0)]
                /\ ntmp' = ntmp + 1
                /\ last' = Call("write", f, NoErr, None)
    /\ UNCHANGED <<version, key, footer, mount_point, path_hash_seed, added,
                   codec>>

\* 40 bytes that end in the magic and begin with the u32 1
Wrapped40 == LE(1, 4) \o Zeros(32) \o MagicBytes

\* an archive given as input: PrefixLen bytes of entries and index, then
\* the footer that points at them
Archive(v, encrypted, hash) ==
    Zeros(PrefixLen) \o ArchiveFooter(v, encrypted, 0, PrefixLen, hash)

\* the sources read: bytes without a footer, the 40 wrapped bytes, and
\* archives of V3 and of V11 whose index, PrefixLen zero bytes under their
\* SHA-1, has no entries
Sources ==
    {Zeros(PrefixLen), Wrapped40,
     Archive(V3, FALSE, Sha1(Zeros(PrefixLen))),
     Archive(V11, FALSE, Sha1(Zeros(PrefixLen)))}

\* one more call within the bound
Step == nops < MaxOps /\ nops' = nops + 1

Next ==
    \/ \E v \in PakVersion : Step /\ set_version(v)
    \/ \E p \in Paths, d \in Datas : Step /\ add_file(p, d)
    \/ \E p \in Paths : Step /\ remove_file(p)
    \/ \E p \in Paths : Step /\ read_file(p)
    \/ \E f \in Files : Step /\ read_path(f)
    \/ \E b \in Sources : Step /\ read_bytes(b)
    \/ \E f \in Files : Step /\ write(f)

Spec == Init /\ [][Next]_vars


(***************************************************************************)
(* Opening byte sources, and Entry.extract_file applied to an entry as an  *)
(* index would hold it.                                                    *)
(***************************************************************************)
\* index.decrypt(key, data)
decrypt(k, data) ==
    IF k = DefaultKey THEN [err |-> "DecryptionRequired", data |-> <<>>]
    ELSE IF Len(data) % 16 # 0 \/ ~AesKeySize(k)
    THEN [err |-> "ValueError", data |-> <<>>]
    ELSE [err |-> NoErr, data |-> AesEcb(k, data)]

\* 20 hash bytes with the bytes of the magic from byte at (0-based) on
HashWithMagic(at) == Zeros(at) \o MagicBytes \o Zeros(16 - at)

HashChoices ==
    {Zeros(20), Sha1(Zeros(PrefixLen)), HashWithMagic(8), HashWithMagic(9)}

ValidArchives ==
    {Archive(v, enc, h) : v \in PakVersion, enc \in BOOLEAN, h \in HashChoices}

EncryptedArchives ==
    {Archive(v, TRUE, h) : v \in V4..V11, h \in HashChoices}

\* 30 bytes with the magic 14 bytes and the u32 3 ten bytes before the end
Wrapped30 == Zeros(16) \o MagicBytes \o LE(3, 4) \o Zeros(6)

SourceSizes == {0, 3, 21, 40, 43, 44, 171, 172, 203, 204, 205, 230}

\* sources without the magic at any of the four offsets from the end
InvalidSources == {Zeros(n) : n \in SourceSizes} \cup {Wrapped40, Wrapped30}

OpenSources == ValidArchives \cup InvalidSources

\* entries of 16 payload bytes whose header is at offset 0
StoredEntry(encrypted) ==
    [NewEntry EXCEPT !.is_encrypted = encrypted, !.compression = "NONE",
                     !.size = 16, !.compressed_size = 16,
                     !.hash = Zeros(20)]

EntryInputs == {StoredEntry(TRUE), StoredEntry(FALSE)}

\* entry.extract_file(reader, version, key, buf) with the PakFile's reader,
\* version and key, as PakFile.read_file calls it (lines 233-235)
extract_file(e) ==
    \E x \in {ExtractFile(e, reader, version, key)} :
        /\ codec' = [err |-> x.err, data |-> x.data, entry |-> e,
                     stage |-> "extract_file"]
        /\ reader' = [reader EXCEPT !.pos = x.pos]
        /\ last' = Call("extract_file", None, x.err, None)
        /\ UNCHANGED <<version, key, entrys, footer, mount_point,
                       path_hash_seed, disk, ntmp, added>>

NextOpen ==
    \/ \E b \in OpenSources : Step /\ read_bytes(b)
    \/ \E e \in EntryInputs : Step /\ extract_file(e)

SpecOpen == Init /\ [][NextOpen]_vars

(***************************************************************************)
(* PakFile.set_key.  A str is a sequence of code points, bytes a sequence  *)
(* of 0..255, an int a sign and the big-endian bytes of its magnitude      *)
(* without leading zeros.                                                  *)
(***************************************************************************)
BytesKey(b) == [v |-> b, t |-> "bytes", neg |-> FALSE]
StrKey(s) == [v |-> s, t |-> "str", neg |-> FALSE]
IntKey(neg, mag) == [v |-> mag, t |-> "int", neg |-> neg]
OtherKey(name) == [v |-> <<>>, t |-> name, neg |-> FALSE]

\* the characters str.strip() removes
StrWhitespace ==
    (9..13) \cup (28..32) \cup {133, 160, 5760} \cup (8192..8202)
    \cup {8232, 8233, 8239, 8287, 12288}
\* the characters bytes.fromhex skips between byte pairs
AsciiWhitespace == {9, 10, 11, 12, 13, 32}

RECURSIVE LStrip(_)
LStrip(s) ==
    IF s # <<>> /\ Head(s) \in StrWhitespace THEN LStrip(Tail(s)) ELSE s

RECURSIVE RStrip(_)
RStrip(s) ==
    IF s # <<>> /\ s[Len(s)] \in StrWhitespace
    THEN RStrip(SubSeq(s, 1, Len(s) - 1)) ELSE s

\* str.strip()
Strip(s) == RStrip(LStrip(s))

\* key_str[2:] when key_str.startswith("0x")
StripPrefix(s) ==
    IF Len(s) >= 2 /\ s[1] = 48 /\ s[2] = 120 THEN SubSeq(s, 3, Len(s)) ELSE s

\* the value of a hex digit, -1 for any other character
HexVal(c) ==
    IF c \in 48..57 THEN c - 48
    ELSE IF c \in 97..102 THEN c - 87
    ELSE IF c \in 65..70 THEN c - 55
    ELSE -1

\* one turn of the loop of bytes.fromhex on the character c: white space is
\* skipped before a pair, and both characters of a pair must be hex digits
HexStep(st, c) ==
    IF st.err # NoErr THEN st
    ELSE IF st.top < 0
    THEN IF c \in AsciiWhitespace THEN st
         ELSE IF HexVal(c) < 0 THEN [st EXCEPT !.err = "ValueError"]
         ELSE [st EXCEPT !.top = HexVal(c)]
    ELSE IF HexVal(c) < 0 THEN [st EXCEPT !.err = "ValueError"]
    ELSE [st EXCEPT !.top = -1,
                    !.bytes = Append(st.bytes, 16 * st.top + HexVal(c))]

RECURSIVE HexRun(_, _, _, _)
\* the loop over the characters lo..hi, left at the first error
HexRun(s, lo, hi, st) ==
    IF st.err # NoErr \/ lo > hi THEN st
    ELSE IF lo = hi THEN HexStep(st, s[lo])
    ELSE HexRun(s, (lo + hi) \div 2 + 1, hi,
                HexRun(s, lo, (lo + hi) \div 2, st))

\* bytes.fromhex(s)
FromHex(s) ==
    LET st == HexRun(s, 1, Len(s), [err |-> NoErr, bytes |-> <<>>, top |-> -1])
    IN  IF st.err # NoErr \/ st.top >= 0
        THEN [err |-> "ValueError", bytes |-> <<>>]
        ELSE [err |-> NoErr, bytes |-> st.bytes]

\* the value of a character of the base64 alphabet, -1 for any other
B64Val(c) ==
    IF c \in 65..90 THEN c - 65
    ELSE IF c \in 97..122 THEN c - 71
    ELSE IF c \in 48..57 THEN c + 4
    ELSE IF c = 43 THEN 62
    ELSE IF c = 47 THEN 63
    ELSE -1

\* one turn of the loop of binascii.a2b_base64 without strict mode:
\* characters outside the alphabet are skipped, a completed pad sequence
\* ends the parse
B64Step(st, ch) ==
    IF st.done THEN st
    ELSE IF ch = 61
    THEN IF st.quad >= 2 /\ st.quad + st.pads + 1 >= 4
         THEN [st EXCEPT !.done = TRUE]
         ELSE IF st.quad >= 2 THEN [st EXCEPT !.pads = st.pads + 1] ELSE st
    ELSE IF B64Val(ch) < 0 THEN st
    ELSE LET c == B64Val(ch)
         IN  CASE st.quad = 0 ->
                    [st EXCEPT !.quad = 1, !.left = c, !.pads = 0]
               [] st.quad = 1 ->
                    [st EXCEPT !.quad = 2, !.left = c % 16, !.pads = 0,
                               !.bytes = Append(st.bytes,
                                                st.left * 4 + c \div 16)]
               [] st.quad = 2 ->
                    [st EXCEPT !.quad = 3, !.left = c % 4, !.pads = 0,
                               !.bytes = Append(st.bytes,
                                                st.left * 16 + c \div 4)]
               [] st.quad = 3 ->
                    [st EXCEPT !.quad = 0, !.left = 0, !.pads = 0,
                               !.bytes = Append(st.bytes, st.left * 64 + c)]

RECURSIVE B64Run(_, _, _, _)
\* the loop over the characters lo..hi, left at a completed pad sequence
B64Run(s, lo, hi, st) ==
    IF st.done \/ lo > hi THEN st
    ELSE IF lo = hi THEN B64Step(st, s[lo])
    ELSE B64Run(s, (lo + hi) \div 2 + 1, hi,
                B64Run(s, lo, (lo + hi) \div 2, st))

\* binascii.a2b_base64(s)
A2bBase64(s) ==
    LET st == B64Run(s, 1, Len(s),
                     [bytes |-> <<>>, left |-> 0, done |-> FALSE, quad |-> 0,
                      pads |-> 0])
    IN  IF ~st.done /\ st.quad # 0
        THEN [err |-> "ValueError", bytes |-> <<>>]
        ELSE [err |-> NoErr, bytes |-> st.bytes]

\* base64.b64decode(s) for a str: encode("ascii"), then a2b_base64
B64Decode(s) ==
    IF \E i \in 1..Len(s) : s[i] > 127
    THEN [err |-> "ValueError", bytes |-> <<>>]
    ELSE A2bBase64(s)

\* key.to_bytes(32, byteorder="big")
ToBytes32(neg, mag) ==
    IF neg \/ Len(mag) > 32 THEN [err |-> "OverflowError", bytes |-> <<>>]
    ELSE [err |-> NoErr, bytes |-> Zeros(32 - Len(mag)) \o mag]

\* the str branch of set_key, lines 106-122
KeyFromStr(s) ==
    LET key_str == StripPrefix(Strip(s))
        h == FromHex(key_str)
        b == B64Decode(key_str)
    IN  IF h.err = NoErr /\ Len(h.bytes) = 32 THEN h
        ELSE IF b.err = NoErr /\ Len(b.bytes) = 32 THEN b
        ELSE [err |-> "ValueError", bytes |-> <<>>]

\* the key to_bytes must give has the magnitude's bytes in little-endian order
KeyFromInt_LittleEndian(x) ==
    LET r == ToBytes32(x.neg, x.v)
    IN  IF r.err # NoErr THEN [err |-> "ValueError", bytes |-> <<>>]
        ELSE [r EXCEPT !.bytes = [i \in 1..32 |-> r.bytes[33 - i]]]

\* the int branch of set_key, lines 96-100
KeyFromInt(x) ==
    LET r == ToBytes32(x.neg, x.v)
    IN  IF r.err # NoErr THEN [err |-> "ValueError", bytes |-> <<>>] ELSE r

\* byte_key and the error of set_key(x), lines 96-129
SetKeyResult(x) ==
    LET r == CASE x.t = "int" -> KeyFromInt(x)
               [] x.t = "bytes" -> [err |-> NoErr, bytes |-> x.v]
               [] x.t = "str" -> KeyFromStr(x.v)
               [] OTHER -> [err |-> "TypeError", bytes |-> <<>>]
    IN  IF r.err = NoErr /\ Len(r.bytes) # 32
        THEN [err |-> "ValueError", bytes |-> <<>>]
        ELSE r

\* PakFile.set_key(key)
set_key(x) ==
    \E r \in {SetKeyResult(x)} :
        /\ key' = IF r.err = NoErr THEN r.bytes ELSE key
        /\ last' = Call("set_key", x, r.err, None)
        /\ UNCHANGED <<version, entrys, reader, footer, mount_point,
                       path_hash_seed, disk, ntmp, added, codec>>

\* ---- the keys given to set_key ----
HexDigit(n, upper) ==
    IF n < 10 THEN 48 + n ELSE IF upper THEN 55 + n ELSE 87 + n

\* the hex text of bytes
HexStr(b, upper) ==
    [i \in 1..(2 * Len(b)) |->
        LET x == b[(i + 1) \div 2]
        IN  HexDigit(IF i % 2 = 1 THEN x \div 16 ELSE x % 16, upper)]

B64Char(v) ==
    IF v < 26 THEN 65 + v
    ELSE IF v < 52 THEN 71 + v
    ELSE IF v < 62 THEN v - 4
    ELSE IF v = 62 THEN 43
    ELSE 47

RECURSIVE B64Str(_)
\* the padded base64 text of bytes
B64Str(b) ==
    IF b = <<>> THEN <<>>
    ELSE IF Len(b) = 1
    THEN <<B64Char(b[1] \div 4), B64Char((b[1] % 4) * 16), 61, 61>>
    ELSE IF Len(b) = 2
    THEN <<B64Char(b[1] \div 4),
           B64Char((b[1] % 4) * 16 + b[2] \div 16),
           B64Char((b[2] % 16) * 4), 61>>
    ELSE <<B64Char(b[1] \div 4),
           B64Char((b[1] % 4) * 16 + b[2] \div 16),
           B64Char((b[2] % 16) * 4 + b[3] \div 64),
           B64Char(b[3] % 64)>> \o B64Str(SubSeq(b, 4, Len(b)))

RECURSIVE Magnitude(_)
\* the bytes of an int's magnitude: no leading zero
Magnitude(b) == IF b # <<>> /\ Head(b) = 0 THEN Magnitude(Tail(b)) ELSE b

KeyA == [i \in 1..32 |-> i - 1]
KeyB == [i \in 1..32 |-> 255 - 4 * i]
KeyC == [i \in 1..32 |-> IF i < 30 THEN 0 ELSE 5]
Keys32 == {KeyA, KeyB, KeyC}

\* what the interface names: 32 raw bytes, their hex text with an optional
\* 0x, their base64 text
Encodings(k) ==
    {BytesKey(k), StrKey(HexStr(k, FALSE)), StrKey(HexStr(k, TRUE)),
     StrKey(<<48, 120>> \o HexStr(k, FALSE)), StrKey(B64Str(k))}

\* more that denotes k: the int with these big-endian bytes; text with
\* white space around it or between the hex pairs; base64 text after 0x,
\* with characters outside the alphabet in it, or with text after the pad
MoreEncodings(k) ==
    {IntKey(FALSE, Magnitude(k)),
     StrKey(<<32>> \o HexStr(k, FALSE) \o <<10>>),
     StrKey(HexStr(SubSeq(k, 1, 16), FALSE) \o <<32>>
                \o HexStr(SubSeq(k, 17, 32), FALSE)),
     StrKey(<<9>> \o B64Str(k) \o <<32>>),
     StrKey(<<48, 120>> \o B64Str(k)),
     StrKey(<<33, 33>> \o B64Str(k)),
     StrKey(B64Str(k) \o <<65, 65, 65, 65>>)}

\* keys no rule accepts
BadKeys ==
    {BytesKey(SubSeq(KeyA, 1, 31)), BytesKey(KeyA \o <<1>>), BytesKey(<<>>),
     IntKey(TRUE, <<1>>), IntKey(FALSE, <<1>> \o KeyB),
     StrKey(<<>>), StrKey(<<122, 122>>),
     StrKey(<<48, 88>> \o HexStr(KeyA, FALSE)),
     StrKey(HexStr(SubSeq(KeyA, 1, 31), FALSE)),
     StrKey(HexStr(KeyA \o <<1>>, FALSE)),
     StrKey(SubSeq(B64Str(KeyA), 1, 43)),
     StrKey(B64Str(SubSeq(KeyA, 1, 31))),
     StrKey(B64Str(KeyA \o <<1>>)),
     StrKey(<<233>> \o B64Str(KeyA)),
     StrKey(HexStr(KeyA, FALSE) \o <<233>>),
     OtherKey("NoneType"), OtherKey("bytearray"), OtherKey("float")}

KeyInputs ==
    UNION {Encodings(k) \cup MoreEncodings(k) : k \in Keys32} \cup BadKeys

NextKey == \E x \in KeyInputs : Step /\ set_key(x)

SpecKey == Init /\ [][NextKey]_vars

(***************************************************************************)
(* Entry functions applied to one stored record: a reader over a file that *)
(* holds an entry header at offset 0 followed by its payload, and entries  *)
(* as an index holds them.                                                 *)
(***************************************************************************)
\* the payload of an entry whose parts are compressed one by one
ZlibPayload(parts) == Concat([i \in 1..Len(parts) |-> ZlibStored(parts[i])])

\* the blocks of that payload, counted from base
ZlibBlocks(parts, base) ==
    [i \in 1..Len(parts) |->
        Block(base + Len(ZlibPayload(SubSeq(parts, 1, i - 1))),
              base + Len(ZlibPayload(SubSeq(parts, 1, i))))]

\* the full-form header Entry.read parses, for a record at offset 0: the
\* compression method wire, the block list when wire is not 0, the
\* encryption flag and the block size
StoredHeader(v, wire, blocks, compressed_size, size, encrypted, block_size) ==
    LE(0, 8) \o LE(compressed_size, 8) \o LE(size, 8)
    \o LE(wire, IF v = V8A THEN 1 ELSE 4)
    \o (IF v = V1 THEN LE(0, 8) ELSE <<>>)
    \o Zeros(20)
    \o (IF v >= V3
        THEN (IF wire # 0
              THEN LE(Len(blocks), 4)
                   \o Concat([i \in 1..Len(blocks) |->
                                 LE(blocks[i].start, 8) \o LE(blocks[i].end, 8)])
              ELSE <<>>)
             \o LE(IF encrypted THEN 1 ELSE 0, 1) \o LE(block_size, 4)
        ELSE <<>>)

\* parts of payloads
PartLists == {<<<<1, 2>>>>, <<<<1, 2>>, <<3>>>>, <<<<4>>, <<5, 6>>, <<7>>>>}

\* a Zlib entry of the given parts as an index holds it, its blocks counted
\* from base
ZlibEntry(parts, base) ==
    [NewEntry EXCEPT !.compression = "Zlib",
                     !.size = Len(Concat(parts)),
                     !.compressed_size = Len(ZlibPayload(parts)),
                     !.blocks = ZlibBlocks(parts, base),
                     !.compression_block_count = Len(parts),
                     !.compression_block_size = Len(parts[1]),
                     !.hash = Zeros(20)]

\* the file of that entry at version v; wire is the compression method its
\* header names
ZlibFile(v, wire, parts) ==
    StoredHeader(v, wire,
                 ZlibBlocks(parts, get_serialized_size(v, TRUE, Len(parts))),
                 Len(ZlibPayload(parts)), Len(Concat(parts)), FALSE,
                 Len(parts[1]))
    \o ZlibPayload(parts)

\* align(offset)
Align(offset) == ((offset + 15) \div 16) * 16

\* n stored bytes that differ from place to place
Payload(n) == IF n <= 0 THEN <<>> ELSE [i \in 1..n |-> (7 * i + 3) % 256]

PlainSizes == {0, 5, 16, 20, 32}

\* an uncompressed entry of the given size as an index holds it
PlainEntry(size, encrypted) ==
    [NewEntry EXCEPT !.is_encrypted = encrypted, !.compression = "NONE",
                     !.size = size, !.compressed_size = size,
                     !.hash = Zeros(20)]

\* the file of that entry at version v: the header, the payload padded to
\* the AES block when encrypted, and tail bytes of what follows the record
PlainFile(v, size, encrypted, tail) ==
    StoredHeader(v, 0, <<>>, size, size, encrypted, 0)
    \o Payload(IF encrypted THEN Align(size) ELSE size)
    \o Zeros(tail)

Tails == {0, 40}

EntryFiles(v) ==
    {ZlibFile(v, wire, parts) : wire \in {0, 1}, parts \in PartLists}
    \cup {PlainFile(v, n, enc, t) :
              n \in PlainSizes, enc \in BOOLEAN, t \in Tails}

\* the entries handed to extract_file at version v
IndexEntries(v) ==
    {ZlibEntry(parts, 0) : parts \in PartLists}
    \cup {ZlibEntry(parts, get_serialized_size(v, TRUE, Len(parts))) :
              parts \in PartLists}
    \cup {PlainEntry(n, enc) : n \in PlainSizes, enc \in BOOLEAN}

InitEntry ==
    /\ version \in PakVersion
    /\ key = KeyA
    /\ \E f \in EntryFiles(version) : reader = OpenReader("e.pak", f)
    /\ entrys = <<>>
    /\ footer = NoVersion
    /\ mount_point = DefaultMountPoint
    /\ path_hash_seed = 0
    /\ ntmp = 0
    /\ added = <<>>
    /\ nops = 0
    /\ last = Call("init", None, NoErr, None)
    /\ disk = [n \in AllFiles |-> NoFile]
    /\ codec = [stage |-> "idle"]

\* entry.write(Writer(), version)
entry_write(e) ==
    \E x \in {EntryWrite(e, NewWriter, version)} :
        /\ codec' = [err |-> x.err, bytes |-> x.writer.buf, entry |-> e,
                     stage |-> "write"]
        /\ last' = Call("Entry.write", None, x.err, None)
        /\ UNCHANGED <<version, key, entrys, reader, footer, mount_point,
                       path_hash_seed, disk, ntmp, added>>

\* entry.write_data(Writer(), version) for a new entry that holds data d
entry_write_data(d) ==
    \E x \in {write_data([NewEntry EXCEPT !.data = d], NewWriter, version)} :
        /\ codec' = [err |-> x.err, bytes |-> x.writer.buf,
                     entry |-> x.entry, stage |-> "write_data"]
        /\ last' = Call("Entry.write_data", None, x.err, None)
        /\ UNCHANGED <<version, key, entrys, reader, footer, mount_point,
                       path_hash_seed, disk, ntmp, added>>

\* reader.set_pos(0); Entry.read(reader, version)
entry_read ==
    \E x \in {EntryRead([reader EXCEPT !.pos = 0], version)} :
        /\ codec' = [pos |-> x.pos, err |-> x.err, entry |-> x.entry,
                     stage |-> "read"]
        /\ reader' = [reader EXCEPT !.pos = x.pos]
        /\ last' = Call("Entry.read", None, x.err, None)
        /\ UNCHANGED <<version, key, entrys, footer, mount_point,
                       path_hash_seed, disk, ntmp, added>>

\* calls on one entry file that are followed: each call seeks to its own
\* start and replaces the result of the one before
MaxCalls == 1

Call1 == nops < MaxCalls /\ nops' = nops + 1

NextEntry ==
    \/ \E e \in IndexEntries(version) : Call1 /\ extract_file(e)
    \/ \E e \in IndexEntries(version) : Call1 /\ entry_write(e)
    \/ \E d \in Datas : Call1 /\ entry_write_data(d)
    \/ Call1 /\ entry_read

SpecEntry == InitEntry /\ [][NextEntry]_vars

(***************************************************************************)
(* Entry.write_encoded and Entry.read_encoded applied on their own.        *)
(***************************************************************************)
\* the list of compression methods handed to read_encoded
CompressionList == <<"NONE", "Zlib", "Oodle">>

\* 2^32 + n
Above32(n) == LE(n, 4) \o LE(1, 4)

\* an entry with the given fields; name is the index of its compression
\* method among the named ones, or NoName
EncEntry(offset, size, compressed_size, name, encrypted, block_size, count) ==
    [NewEntry EXCEPT !.offset = offset, !.size = size,
                     !.compressed_size = compressed_size,
                     !.compressio_name = name,
                     !.compression = IF name = NoName THEN "NONE"
                                     ELSE CompressionList[name + 2],
                     !.is_encrypted = encrypted,
                     !.compression_block_size = block_size,
                     !.compression_block_count = count]

\* block sizes: multiples of 2048 below 63 * 2048, 63 * 2048, and values
\* that are no multiple of 2048
BlockSizes == {W(0), W(4096), W(1000), W(129024)}

\* uncompressed entries, with small and with large offsets and sizes
PlainEncEntries ==
    {EncEntry(o, sz, sz, NoName, enc, bs, 0) :
         o \in {W(5), Above32(5)}, sz \in {W(7), Above32(9)},
         enc \in BOOLEAN, bs \in BlockSizes}

\* compressed entries of one and of two blocks
ZlibEncEntries ==
    {EncEntry(W(5), W(70), W(40), 0, enc, bs, n) :
         enc \in BOOLEAN, bs \in {W(4096), W(1000)}, n \in {1, 2}}

\* entries whose block count or name reaches into the flag bits above its
\* field, or beyond bit 31
WideFieldEntries ==
    {[EncEntry(W(5), W(7), W(7), NoName, FALSE, W(4096), n)
          EXCEPT !.compressio_name = name] :
         n \in {0, 65536, 67108864}, name \in {NoName, 63, 511}}

EncEntries == PlainEncEntries \cup ZlibEncEntries \cup WideFieldEntries

\* the record read_encoded parses for the fields of e and the given block
\* sizes: flags, the block size when its six bits are the sentinel 0x3F,
\* offset, size, the compressed size of a compressed entry, the block sizes
EncodedRecord(e, sizes) ==
    LET bs == e.compression_block_size
        bs6 == IF W((((bs[2] \div 8) + 32 * bs[3]) % 64) * 2048) = bs
                  /\ bs # W(129024)
               THEN bs[2] \div 8 + 32 * bs[3] ELSE 63
        Var(x) == IF Is32BitSafe(x) THEN SubSeq(x, 1, 4) ELSE x
    IN  EncodedFlags(bs6, e.compression_block_count, e.is_encrypted,
                     IF e.compressio_name = NoName THEN 0
                     ELSE e.compressio_name + 1,
                     Is32BitSafe(e.compressed_size), Is32BitSafe(e.size),
                     Is32BitSafe(e.offset))
        \o (IF bs6 = 63 THEN SubSeq(bs, 1, 4) ELSE <<>>)
        \o Var(e.offset) \o Var(e.size)
        \o (IF e.compression # "NONE" THEN Var(e.compressed_size) ELSE <<>>)
        \o Concat([i \in 1..Len(sizes) |-> LE(sizes[i], 4)])

BlockSizeLists == {<<>>, <<40>>, <<17, 23>>, <<10, 10>>, <<33, 16>>}

\* a compressed entry of one block that is not encrypted, with the
\* compressed size 2^64 - 1
HugeBlockEntry ==
    EncEntry(W(5), W(70), [i \in 1..8 |-> 255], 0, FALSE, W(4096), 1)

EncodedSources ==
    {EncodedRecord(e, sizes) : e \in ZlibEncEntries, sizes \in BlockSizeLists}
    \cup {EncodedRecord(e, <<>>) : e \in PlainEncEntries}
    \cup {EncodedRecord(HugeBlockEntry, <<>>), <<>>, LE(0, 4)}

\* entry.write_encoded(Writer(), version)
write_encoded(e) ==
    \E x \in {WriteEncoded(e, NewWriter, version)} :
        /\ codec' = [err |-> x.err, bytes |-> x.writer.buf,
                     entry |-> x.entry, stage |-> "write_encoded",
                     given |-> e]
        /\ last' = Call("write_encoded", None, x.err, None)
        /\ UNCHANGED <<version, key, entrys, reader, footer, mount_point,
                       path_hash_seed, disk, ntmp, added>>

\* Entry.read_encoded(Reader(b), version, compressions); written tells that
\* b is what write_encoded emitted for the entry given
ReadEncodedCall(b, written, given) ==
    \E x \in {ReadEncoded(OpenReader(None, b), version, CompressionList)} :
        /\ codec' = [pos |-> x.pos, err |-> x.err,
                     bytes |-> b, entry |-> x.entry, stage |-> "read_encoded",
                     given |-> given, written |-> written]
        /\ last' = Call("read_encoded", None, x.err, None)
        /\ UNCHANGED <<version, key, entrys, reader, footer, mount_point,
                       path_hash_seed, disk, ntmp, added>>

\* read_encoded on the bytes the last write_encoded emitted
read_written ==
    /\ codec.stage = "write_encoded"
    /\ ReadEncodedCall(codec.bytes, TRUE, codec.given)

\* read_encoded on a stored record
read_encoded(b) ==
    ReadEncodedCall(b, FALSE, EncEntry(W(0), W(0), W(0), NoName, FALSE, W(0), 0))

InitEncoded ==
    /\ version \in PakVersion
    /\ key = DefaultKey
    /\ reader = NewReader
    /\ entrys = <<>>
    /\ footer = NoVersion
    /\ mount_point = DefaultMountPoint
    /\ path_hash_seed = 0
    /\ ntmp = 0
    /\ added = <<>>
    /\ nops = 0
    /\ last = Call("init", None, NoErr, None)
    /\ disk = [n \in AllFiles |-> NoFile]
    /\ codec = [stage |-> "idle"]

NextEncoded ==
    \/ \E e \in EncEntries : write_encoded(e) /\ UNCHANGED nops
    \/ read_written /\ UNCHANGED nops
    \/ \E b \in EncodedSources : read_encoded(b) /\ UNCHANGED nops

SpecEncoded == InitEncoded /\ [][NextEncoded]_vars

(***************************************************************************)
(* utils.py: fnv64 and fnv64_path.  A str is the sequence of its code      *)
(* points; the 64-bit hash is its eight little-endian bytes.               *)
(***************************************************************************)
RECURSIVE WMulCarry(_, _, _)
\* the carry out of byte k of a * b
WMulCarry(a, b, k) ==
    IF k = 0 THEN 0
    ELSE (LET col[i \in 0..k] ==
                  IF i = 0 THEN 0 ELSE col[i - 1] + a[i] * b[k + 1 - i]
          IN  col[k] + WMulCarry(a, b, k - 1)) \div 256

\* (a * b) & 0xFFFFFFFFFFFFFFFF
WMul(a, b) ==
    [k \in 1..8 |->
        (LET col[i \in 0..k] ==
                 IF i = 0 THEN 0 ELSE col[i - 1] + a[i] * b[k + 1 - i]
         IN  col[k] + WMulCarry(a, b, k - 1)) % 256]

\* OFFSET = 0xcbf29ce484222325 and PRIME = 0x00000100000001b3
FNV_OFFSET == <<37, 35, 34, 132, 228, 156, 242, 203>>
FNV_PRIME == <<179, 1, 0, 0, 0, 1, 0, 0>>

\* multiply, then xor: FNV-1
Fnv64Step_MultiplyFirst(h, b) ==
    Bind(WMul(h, FNV_PRIME), LAMBDA m : [m EXCEPT ![1] = BitXor(m[1], b, 8)])

\* one pass of the loop of fnv64: hash_ ^= b, then hash_ * PRIME mod 2^64
Fnv64Step(h, b) == WMul([h EXCEPT ![1] = BitXor(h[1], b, 8)], FNV_PRIME)

RECURSIVE Fnv64Loop(_, _, _)
Fnv64Loop(h, data, i) ==
    IF i > Len(data) THEN h
    ELSE Bind(Fnv64Step(h, data[i]), LAMBDA n : Fnv64Loop(n, data, i + 1))

\* fnv64(data_bytes, offset) for a 64-bit offset
fnv64(data_bytes, offset) == Fnv64Loop(WAdd(FNV_OFFSET, offset), data_bytes, 1)

\* c is one of the code points lo, lo + step, ..., hi of a run
InRun(c, r) == c >= r[1] /\ c <= r[2] /\ (c - r[1]) % r[3] = 0

\* The code points whose lower case is another single code point, in runs
\* <<lo, hi, step, delta>>: the lower case of a code point of the run is
\* delta further on (Unicode 14.0, the tables of the interpreter).
LowerRuns ==
    {<<65,90,1,32>>, <<192,214,1,32>>, <<216,222,1,32>>, <<256,302,2,1>>,
     <<306,310,2,1>>, <<313,327,2,1>>, <<330,374,2,1>>, <<376,376,1,-121>>,
     <<377,381,2,1>>, <<385,385,1,210>>, <<386,388,2,1>>, <<390,390,1,206>>,
     <<391,391,1,1>>, <<393,394,1,205>>, <<395,395,1,1>>, <<398,398,1,79>>,
     <<399,399,1,202>>, <<400,400,1,203>>, <<401,401,1,1>>,
     <<403,403,1,205>>, <<404,404,1,207>>, <<406,406,1,211>>,
     <<407,407,1,209>>, <<408,408,1,1>>, <<412,412,1,211>>,
     <<413,413,1,213>>, <<415,415,1,214>>, <<416,420,2,1>>,
     <<422,422,1,218>>, <<423,423,1,1>>, <<425,425,1,218>>, <<428,428,1,1>>,
     <<430,430,1,218>>, <<431,431,1,1>>, <<433,434,1,217>>, <<435,437,2,1>>,
     <<439,439,1,219>>, <<440,440,1,1>>, <<444,444,1,1>>, <<452,452,1,2>>,
     <<453,453,1,1>>, <<455,455,1,2>>, <<456,456,1,1>>, <<458,458,1,2>>,
     <<459,475,2,1>>, <<478,494,2,1>>, <<497,497,1,2>>, <<498,500,2,1>>,
     <<502,502,1,-97>>, <<503,503,1,-56>>, <<504,542,2,1>>,
     <<544,544,1,-130>>, <<546,562,2,1>>, <<570,570,1,10795>>,
     <<571,571,1,1>>, <<573,573,1,-163>>, <<574,574,1,10792>>,
     <<577,577,1,1>>, <<579,579,1,-195>>, <<580,580,1,69>>, <<581,581,1,71>>,
     <<582,590,2,1>>, <<880,882,2,1>>, <<886,886,1,1>>, <<895,895,1,116>>,
     <<902,902,1,38>>, <<904,906,1,37>>, <<908,908,1,64>>, <<910,911,1,63>>,
     <<913,929,1,32>>, <<931,939,1,32>>, <<975,975,1,8>>, <<984,1006,2,1>>,
     <<1012,1012,1,-60>>, <<1015,1015,1,1>>, <<1017,1017,1,-7>>,
     <<1018,1018,1,1>>, <<1021,1023,1,-130>>, <<1024,1039,1,80>>,
     <<1040,1071,1,32>>, <<1120,1152,2,1>>, <<1162,1214,2,1>>,
     <<1216,1216,1,15>>, <<1217,1229,2,1>>, <<1232,1326,2,1>>,
     <<1329,1366,1,48>>, <<4256,4293,1,7264>>, <<4295,4295,1,7264>>,
     <<4301,4301,1,7264>>, <<5024,5103,1,38864>>, <<5104,5109,1,8>>,
     <<7312,7354,1,-3008>>, <<7357,7359,1,-3008>>, <<7680,7828,2,1>>,
     <<7838,7838,1,-7615>>, <<7840,7934,2,1>>, <<7944,7951,1,-8>>,
     <<7960,7965,1,-8>>, <<7976,7983,1,-8>>, <<7992,7999,1,-8>>,
     <<8008,8013,1,-8>>, <<8025,8031,2,-8>>, <<8040,8047,1,-8>>,
     <<8072,8079,1,-8>>, <<8088,8095,1,-8>>, <<8104,8111,1,-8>>,
     <<8120,8121,1,-8>>, <<8122,8123,1,-74>>, <<8124,8124,1,-9>>,
     <<8136,8139,1,-86>>, <<8140,8140,1,-9>>, <<8152,8153,1,-8>>,
     <<8154,8155,1,-100>>, <<8168,8169,1,-8>>, <<8170,8171,1,-112>>,
     <<8172,8172,1,-7>>, <<8184,8185,1,-128>>, <<8186,8187,1,-126>>,
     <<8188,8188,1,-9>>, <<8486,8486,1,-7517>>, <<8490,8490,1,-8383>>,
     <<8491,8491,1,-8262>>, <<8498,8498,1,28>>, <<8544,8559,1,16>>,
     <<8579,8579,1,1>>, <<9398,9423,1,26>>, <<11264,11311,1,48>>,
     <<11360,11360,1,1>>, <<11362,11362,1,-10743>>, <<11363,11363,1,-3814>>,
     <<11364,11364,1,-10727>>, <<11367,11371,2,1>>, <<11373,11373,1,-10780>>,
     <<11374,11374,1,-10749>>, <<11375,11375,1,-10783>>,
     <<11376,11376,1,-10782>>, <<11378,11378,1,1>>, <<11381,11381,1,1>>,
     <<11390,11391,1,-10815>>, <<11392,11490,2,1>>, <<11499,11501,2,1>>,
     <<11506,11506,1,1>>, <<42560,42604,2,1>>, <<42624,42650,2,1>>,
     <<42786,42798,2,1>>, <<42802,42862,2,1>>, <<42873,42875,2,1>>,
     <<42877,42877,1,-35332>>, <<42878,42886,2,1>>, <<42891,42891,1,1>>,
     <<42893,42893,1,-42280>>, <<42896,42898,2,1>>, <<42902,42920,2,1>>,
     <<42922,42922,1,-42308>>, <<42923,42923,1,-42319>>,
     <<42924,42924,1,-42315>>, <<42925,42925,1,-42305>>,
     <<42926,42926,1,-42308>>, <<42928,42928,1,-42258>>,
     <<42929,42929,1,-42282>>, <<42930,42930,1,-42261>>,
     <<42931,42931,1,928>>, <<42932,42946,2,1>>, <<42948,42948,1,-48>>,
     <<42949,42949,1,-42307>>, <<42950,42950,1,-35384>>, <<42951,42953,2,1>>,
     <<42960,42960,1,1>>, <<42966,42968,2,1>>, <<42997,42997,1,1>>,
     <<65313,65338,1,32>>, <<66560,66599,1,40>>, <<66736,66771,1,40>>,
     <<66928,66964,2,39>>, <<66929,66938,1,39>>, <<66941,66954,1,39>>,
     <<66957,66962,1,39>>, <<66965,66965,1,39>>, <<68736,68786,1,64>>,
     <<71840,71871,1,32>>, <<93760,93791,1,32>>, <<125184,125217,1,34>>}

\* the code points that are cased and not case-ignorable, in runs
\* <<lo, hi, step>>
CasedRuns ==
    {<<65,90,1>>, <<97,122,1>>, <<170,170,1>>, <<181,181,1>>, <<186,186,1>>,
     <<192,446,2>>, <<193,214,1>>, <<217,246,1>>, <<249,442,1>>,
     <<445,447,1>>, <<452,659,1>>, <<661,687,1>>, <<880,883,1>>,
     <<886,887,1>>, <<891,893,1>>, <<895,895,1>>, <<902,928,2>>,
     <<905,906,1>>, <<911,1153,2>>, <<932,1013,1>>, <<1016,1153,1>>,
     <<1162,1327,1>>, <<1329,1366,1>>, <<1376,1416,1>>, <<4256,4293,1>>,
     <<4295,4295,1>>, <<4301,4301,1>>, <<4304,4346,1>>, <<4349,4351,1>>,
     <<5024,5109,1>>, <<5112,5117,1>>, <<7296,7304,1>>, <<7312,7354,1>>,
     <<7357,7359,1>>, <<7424,7467,1>>, <<7531,7577,2>>, <<7532,7543,1>>,
     <<7546,7578,1>>, <<7680,7957,1>>, <<7960,7965,1>>, <<7968,8005,1>>,
     <<8008,8013,1>>, <<8016,8023,1>>, <<8025,8061,2>>, <<8032,8061,1>>,
     <<8064,8116,1>>, <<8118,8124,1>>, <<8126,8126,1>>, <<8130,8140,2>>,
     <<8131,8132,1>>, <<8135,8140,1>>, <<8144,8147,1>>, <<8150,8155,1>>,
     <<8160,8172,1>>, <<8178,8188,2>>, <<8179,8180,1>>, <<8183,8188,1>>,
     <<8450,8450,1>>, <<8455,8455,1>>, <<8458,8467,1>>, <<8469,8469,1>>,
     <<8473,8477,1>>, <<8484,8492,2>>, <<8491,8499,2>>, <<8496,8500,1>>,
     <<8505,8505,1>>, <<8508,8511,1>>, <<8517,8521,1>>, <<8526,8526,1>>,
     <<8544,8575,1>>, <<8579,8580,1>>, <<9398,9449,1>>, <<11264,11387,1>>,
     <<11390,11492,1>>, <<11499,11502,1>>, <<11506,11507,1>>,
     <<11520,11557,1>>, <<11559,11559,1>>, <<11565,11565,1>>,
     <<42560,42605,1>>, <<42624,42651,1>>, <<42786,42863,1>>,
     <<42865,42887,1>>, <<42891,42894,1>>, <<42896,42954,1>>,
     <<42960,42961,1>>, <<42963,42969,2>>, <<42966,42969,1>>,
     <<42997,42998,1>>, <<43002,43002,1>>, <<43824,43866,1>>,
     <<43872,43880,1>>, <<43888,43967,1>>, <<64256,64262,1>>,
     <<64275,64279,1>>, <<65313,65338,1>>, <<65345,65370,1>>,
     <<66560,66639,1>>, <<66736,66771,1>>, <<66776,66811,1>>,
     <<66928,66964,2>>, <<66929,66938,1>>, <<66941,66954,1>>,
     <<66957,66962,1>>, <<66965,67003,2>>, <<66968,66977,1>>,
     <<66980,66993,1>>, <<66996,67001,1>>, <<67004,67004,1>>,
     <<68736,68786,1>>, <<68800,68850,1>>, <<71840,71903,1>>,
     <<93760,93823,1>>, <<119808,119892,1>>, <<119894,119964,1>>,
     <<119966,119967,1>>, <<119970,119970,1>>, <<119973,119974,1>>,
     <<119977,119980,1>>, <<119982,119993,1>>, <<119995,120073,2>>,
     <<119998,120003,1>>, <<120006,120069,1>>, <<120072,120074,1>>,
     <<120077,120084,1>>, <<120086,120120,2>>, <<120087,120092,1>>,
     <<120095,120121,1>>, <<120123,120126,1>>, <<120128,120132,1>>,
     <<120134,120134,1>>, <<120138,120484,2>>, <<120139,120144,1>>,
     <<120147,120485,1>>, <<120488,120778,2>>, <<120489,120512,1>>,
     <<120515,120538,1>>, <<120541,120570,1>>, <<120573,120596,1>>,
     <<120599,120628,1>>, <<120631,120654,1>>, <<120657,120686,1>>,
     <<120689,120712,1>>, <<120715,120744,1>>, <<120747,120770,1>>,
     <<120773,120779,1>>, <<122624,122633,1>>, <<122635,122654,1>>,
     <<125184,125251,1>>, <<127280,127305,1>>, <<127312,127337,1>>,
     <<127344,127369,1>>}

\* the case-ignorable code points, in runs <<lo, hi, step>>
CaseIgnorableRuns ==
    {<<39,39,1>>, <<46,46,1>>, <<58,58,1>>, <<94,96,2>>, <<168,168,1>>,
     <<173,175,2>>, <<180,180,1>>, <<183,184,1>>, <<688,879,1>>,
     <<884,885,1>>, <<890,890,1>>, <<900,901,1>>, <<903,903,1>>,
     <<1155,1161,1>>, <<1369,1369,1>>, <<1375,1375,1>>, <<1425,1469,1>>,
     <<1471,1473,2>>, <<1474,1476,2>>, <<1477,1479,2>>, <<1524,1524,1>>,
     <<1536,1541,1>>, <<1552,1562,1>>, <<1564,1564,1>>, <<1600,1600,1>>,
     <<1611,1631,1>>, <<1648,1648,1>>, <<1750,1757,1>>, <<1759,1768,1>>,
     <<1770,1773,1>>, <<1807,1809,2>>, <<1840,1866,1>>, <<1958,1968,1>>,
     <<2027,2037,1>>, <<2042,2042,1>>, <<2045,2045,1>>, <<2070,2093,1>>,
     <<2137,2139,1>>, <<2184,2184,1>>, <<2192,2193,1>>, <<2200,2207,1>>,
     <<2249,2306,1>>, <<2362,2364,2>>, <<2369,2376,1>>, <<2381,2381,1>>,
     <<2385,2391,1>>, <<2402,2403,1>>, <<2417,2417,1>>, <<2433,2433,1>>,
     <<2492,2492,1>>, <<2497,2500,1>>, <<2509,2509,1>>, <<2530,2531,1>>,
     <<2558,2558,1>>, <<2561,2562,1>>, <<2620,2620,1>>, <<2625,2626,1>>,
     <<2631,2632,1>>, <<2635,2637,1>>, <<2641,2641,1>>, <<2672,2673,1>>,
     <<2677,2677,1>>, <<2689,2690,1>>, <<2748,2748,1>>, <<2753,2757,1>>,
     <<2759,2760,1>>, <<2765,2765,1>>, <<2786,2787,1>>, <<2810,2815,1>>,
     <<2817,2817,1>>, <<2876,2876,1>>, <<2879,2883,2>>, <<2882,2884,1>>,
     <<2893,2893,1>>, <<2901,2902,1>>, <<2914,2915,1>>, <<2946,2946,1>>,
     <<3008,3008,1>>, <<3021,3021,1>>, <<3072,3072,1>>, <<3076,3076,1>>,
     <<3132,3136,2>>, <<3135,3136,1>>, <<3142,3148,2>>, <<3143,3144,1>>,
     <<3147,3149,1>>, <<3157,3158,1>>, <<3170,3171,1>>, <<3201,3201,1>>,
     <<3260,3260,1>>, <<3263,3263,1>>, <<3270,3270,1>>, <<3276,3277,1>>,
     <<3298,3299,1>>, <<3328,3329,1>>, <<3387,3388,1>>, <<3393,3396,1>>,
     <<3405,3405,1>>, <<3426,3427,1>>, <<3457,3457,1>>, <<3530,3530,1>>,
     <<3538,3540,1>>, <<3542,3542,1>>, <<3633,3633,1>>, <<3636,3642,1>>,
     <<3654,3662,1>>, <<3761,3761,1>>, <<3764,3772,1>>, <<3782,3788,2>>,
     <<3785,3789,1>>, <<3864,3865,1>>, <<3893,3897,2>>, <<3953,3966,1>>,
     <<3968,3972,1>>, <<3974,3975,1>>, <<3981,4027,2>>, <<3982,3991,1>>,
     <<3994,4028,1>>, <<4038,4038,1>>, <<4141,4144,1>>, <<4146,4151,1>>,
     <<4153,4154,1>>, <<4157,4158,1>>, <<4184,4185,1>>, <<4190,4192,1>>,
     <<4209,4212,1>>, <<4226,4226,1>>, <<4229,4230,1>>, <<4237,4237,1>>,
     <<4253,4253,1>>, <<4348,4348,1>>, <<4957,4959,1>>, <<5906,5908,1>>,
     <<5938,5939,1>>, <<5970,5971,1>>, <<6002,6003,1>>, <<6068,6069,1>>,
     <<6071,6077,1>>, <<6086,6086,1>>, <<6089,6099,1>>, <<6103,6103,1>>,
     <<6109,6109,1>>, <<6155,6159,1>>, <<6211,6211,1>>, <<6277,6278,1>>,
     <<6313,6313,1>>, <<6432,6434,1>>, <<6439,6440,1>>, <<6450,6450,1>>,
     <<6457,6459,1>>, <<6679,6680,1>>, <<6683,6683,1>>, <<6742,6754,2>>,
     <<6745,6750,1>>, <<6757,6764,1>>, <<6771,6780,1>>, <<6783,6783,1>>,
     <<6823,6823,1>>, <<6832,6862,1>>, <<6912,6915,1>>, <<6964,6972,2>>,
     <<6967,6970,1>>, <<6978,6978,1>>, <<7019,7027,1>>, <<7040,7041,1>>,
     <<7074,7077,1>>, <<7080,7081,1>>, <<7083,7085,1>>, <<7142,7144,2>>,
     <<7145,7145,1>>, <<7149,7153,2>>, <<7152,7153,1>>, <<7212,7219,1>>,
     <<7222,7223,1>>, <<7288,7293,1>>, <<7376,7400,2>>, <<7377,7378,1>>,
     <<7381,7392,1>>, <<7395,7400,1>>, <<7405,7405,1>>, <<7412,7412,1>>,
     <<7416,7417,1>>, <<7468,7530,1>>, <<7544,7544,1>>, <<7579,7679,1>>,
     <<8125,8129,2>>, <<8128,8129,1>>, <<8141,8143,1>>, <<8157,8159,1>>,
     <<8173,8175,1>>, <<8189,8190,1>>, <<8203,8207,1>>, <<8216,8217,1>>,
     <<8228,8228,1>>, <<8231,8231,1>>, <<8234,8238,1>>, <<8288,8302,2>>,
     <<8289,8292,1>>, <<8295,8303,1>>, <<8305,8305,1>>, <<8319,8319,1>>,
     <<8336,8348,1>>, <<8400,8432,1>>, <<11388,11389,1>>, <<11503,11505,1>>,
     <<11631,11631,1>>, <<11647,11647,1>>, <<11744,11775,1>>,
     <<11823,11823,1>>, <<12293,12293,1>>, <<12330,12333,1>>,
     <<12337,12341,1>>, <<12347,12347,1>>, <<12441,12446,1>>,
     <<12540,12542,1>>, <<40981,40981,1>>, <<42232,42237,1>>,
     <<42508,42508,1>>, <<42607,42610,1>>, <<42612,42621,1>>,
     <<42623,42623,1>>, <<42652,42655,1>>, <<42736,42737,1>>,
     <<42752,42785,1>>, <<42864,42864,1>>, <<42888,42890,1>>,
     <<42994,42996,1>>, <<43000,43001,1>>, <<43010,43010,1>>,
     <<43014,43014,1>>, <<43019,43019,1>>, <<43045,43046,1>>,
     <<43052,43052,1>>, <<43204,43205,1>>, <<43232,43249,1>>,
     <<43263,43263,1>>, <<43302,43309,1>>, <<43335,43345,1>>,
     <<43392,43394,1>>, <<43443,43443,1>>, <<43446,43449,1>>,
     <<43452,43453,1>>, <<43471,43471,1>>, <<43493,43494,1>>,
     <<43561,43566,1>>, <<43569,43570,1>>, <<43573,43574,1>>,
     <<43587,43587,1>>, <<43596,43596,1>>, <<43632,43632,1>>,
     <<43644,43644,1>>, <<43696,43700,2>>, <<43699,43700,1>>,
     <<43703,43704,1>>, <<43710,43711,1>>, <<43713,43713,1>>,
     <<43741,43741,1>>, <<43756,43757,1>>, <<43763,43764,1>>,
     <<43766,43766,1>>, <<43867,43871,1>>, <<43881,43883,1>>,
     <<44005,44005,1>>, <<44008,44008,1>>, <<44013,44013,1>>,
     <<64286,64286,1>>, <<64434,64450,1>>, <<65024,65039,1>>,
     <<65043,65043,1>>, <<65056,65071,1>>, <<65106,65106,1>>,
     <<65109,65109,1>>, <<65279,65279,1>>, <<65287,65287,1>>,
     <<65294,65294,1>>, <<65306,65306,1>>, <<65342,65344,2>>,
     <<65392,65392,1>>, <<65438,65439,1>>, <<65507,65507,1>>,
     <<65529,65531,1>>, <<66045,66045,1>>, <<66272,66272,1>>,
     <<66422,66426,1>>, <<67456,67461,1>>, <<67463,67504,1>>,
     <<67506,67514,1>>, <<68097,68099,1>>, <<68101,68102,1>>,
     <<68108,68111,1>>, <<68152,68154,1>>, <<68159,68159,1>>,
     <<68325,68326,1>>, <<68900,68903,1>>, <<69291,69292,1>>,
     <<69446,69456,1>>, <<69506,69509,1>>, <<69633,69633,1>>,
     <<69688,69702,1>>, <<69744,69744,1>>, <<69747,69748,1>>,
     <<69759,69761,1>>, <<69811,69814,1>>, <<69817,69818,1>>,
     <<69821,69821,1>>, <<69826,69826,1>>, <<69837,69837,1>>,
     <<69888,69890,1>>, <<69927,69939,2>>, <<69928,69931,1>>,
     <<69934,69940,1>>, <<70003,70003,1>>, <<70016,70017,1>>,
     <<70070,70078,1>>, <<70089,70092,1>>, <<70095,70095,1>>,
     <<70191,70193,1>>, <<70196,70198,2>>, <<70199,70199,1>>,
     <<70206,70206,1>>, <<70367,70367,1>>, <<70371,70378,1>>,
     <<70400,70401,1>>, <<70459,70460,1>>, <<70464,70464,1>>,
     <<70502,70508,1>>, <<70512,70516,1>>, <<70712,70719,1>>,
     <<70722,70724,1>>, <<70726,70726,1>>, <<70750,70750,1>>,
     <<70835,70840,1>>, <<70842,70842,1>>, <<70847,70848,1>>,
     <<70850,70851,1>>, <<71090,71093,1>>, <<71100,71101,1>>,
     <<71103,71104,1>>, <<71132,71133,1>>, <<71219,71226,1>>,
     <<71229,71231,2>>, <<71232,71232,1>>, <<71339,71341,2>>,
     <<71344,71349,1>>, <<71351,71351,1>>, <<71453,71455,1>>,
     <<71458,71461,1>>, <<71463,71467,1>>, <<71727,71735,1>>,
     <<71737,71738,1>>, <<71995,71996,1>>, <<71998,71998,1>>,
     <<72003,72003,1>>, <<72148,72151,1>>, <<72154,72155,1>>,
     <<72160,72160,1>>, <<72193,72202,1>>, <<72243,72248,1>>,
     <<72251,72254,1>>, <<72263,72263,1>>, <<72273,72278,1>>,
     <<72281,72283,1>>, <<72330,72342,1>>, <<72344,72345,1>>,
     <<72752,72758,1>>, <<72760,72765,1>>, <<72767,72767,1>>,
     <<72850,72871,1>>, <<72874,72880,1>>, <<72882,72883,1>>,
     <<72885,72886,1>>, <<73009,73014,1>>, <<73018,73020,2>>,
     <<73021,73031,2>>, <<73024,73029,1>>, <<73104,73105,1>>,
     <<73109,73111,2>>, <<73459,73460,1>>, <<78896,78904,1>>,
     <<92912,92916,1>>, <<92976,92982,1>>, <<92992,92995,1>>,
     <<94031,94031,1>>, <<94095,94111,1>>, <<94176,94177,1>>,
     <<94179,94180,1>>, <<110576,110579,1>>, <<110581,110587,1>>,
     <<110589,110590,1>>, <<113821,113822,1>>, <<113824,113827,1>>,
     <<118528,118573,1>>, <<118576,118598,1>>, <<119143,119145,1>>,
     <<119155,119170,1>>, <<119173,119179,1>>, <<119210,119213,1>>,
     <<119362,119364,1>>, <<121344,121398,1>>, <<121403,121452,1>>,
     <<121461,121461,1>>, <<121476,121476,1>>, <<121499,121519,2>>,
     <<121500,121503,1>>, <<121506,121519,1>>, <<122880,122904,2>>,
     <<122881,122886,1>>, <<122889,122904,1>>, <<122907,122913,1>>,
     <<122915,122916,1>>, <<122918,122922,1>>, <<123184,123197,1>>,
     <<123566,123566,1>>, <<123628,123631,1>>, <<125136,125142,1>>,
     <<125252,125259,1>>, <<127995,127999,1>>, <<917505,917505,1>>,
     <<917536,917631,1>>, <<917760,917999,1>>}

Cased(c) == \E r \in CasedRuns : InRun(c, r)
CaseIgnorable(c) == \E r \in CaseIgnorableRuns : InRun(c, r)

\* str.lower() of one code point taken alone; U+0130 has a lower case of
\* two code points
LowerChar(c) ==
    IF c = 304 THEN <<105, 775>>
    ELSE IF \E r \in LowerRuns : InRun(c, r)
    THEN <<c + (CHOOSE r \in LowerRuns : InRun(c, r))[4]>>
    ELSE <<c>>

\* handle_capital_sigma: walking back from the sigma over case-ignorable
\* code points, the first other code point exists and is cased; walking
\* forward from it over case-ignorable code points, the first other code
\* point does not exist or is not cased
FinalSigma(str, i) ==
    LET before == {j \in 1..(i - 1) : ~CaseIgnorable(str[j])}
        after == {j \in (i + 1)..Len(str) : ~CaseIgnorable(str[j])}
    IN  /\ before # {}
        /\ Cased(str[CHOOSE j \in before : \A k \in before : k <= j])
        /\ \/ after = {}
           \/ ~Cased(str[CHOOSE j \in after : \A k \in after : j <= k])

\* str.lower()
Lower(str) ==
    Concat([i \in 1..Len(str) |->
               IF str[i] = 931
               THEN IF FinalSigma(str, i) THEN <<962>> ELSE <<963>>
               ELSE LowerChar(str[i])])

\* fnv64_path(path, offset)
Fnv64Path(path, offset) ==
    IF ~Encodable(Lower(path))
    THEN [err |-> "UnicodeEncodeError", hash |-> W(0)]
    ELSE [err |-> NoErr, hash |-> fnv64(Utf16le(Lower(path)), offset)]

\* the code points of the paths: a, Z, /, E-acute, I with dot above, an
\* emoji outside the basic plane, z, a lone surrogate, capital, small and
\* final small sigma, S, s and long s, I, i and dotless i, and the
\* modifier letter small h, which is cased and case-ignorable
PathChars ==
    {97, 90, 47, 201, 304, 128512, 122, 55296, 931, 963, 962, 83, 115, 383,
     73, 105, 305, 688}

PathInputs ==
    {<<>>} \cup {<<c>> : c \in PathChars}
    \cup {<<c, d>> : c \in PathChars, d \in PathChars}

\* seeds: 0, 1, one that wraps the sum with OFFSET, 2^64 - 1
Seeds == {W(0), W(1), <<219, 220, 221, 123, 27, 99, 13, 52>>,
          [i \in 1..8 |-> 255]}

fnv64_path(path, seed) ==
    \E x \in {Fnv64Path(path, seed)} :
        /\ codec' = [err |-> x.err, hash |-> x.hash, path |-> path,
                     stage |-> "fnv64_path", seed |-> seed]
        /\ last' = Call("fnv64_path", None, x.err, None)
        /\ UNCHANGED <<version, key, entrys, reader, footer, mount_point,
                       path_hash_seed, disk, ntmp, added, nops>>

(***************************************************************************)
(* file_io.py: Writer.string and Reader.string                             *)
(***************************************************************************)
\* struct "<i" unpack
I32Val(b) ==
    b[1] + 256 * b[2] + 65536 * b[3]
    + 16777216 * (IF b[4] < 128 THEN b[4] ELSE b[4] - 256)

\* bytes.decode("ascii", errors="replace")
AsciiDecode(bytes) ==
    [i \in 1..Len(bytes) |-> IF bytes[i] < 128 THEN bytes[i] ELSE 65533]

RECURSIVE Utf16Units(_, _)
\* the code points of UTF-16 code units u from the i-th on; a surrogate
\* without its partner is replaced by U+FFFD
Utf16Units(u, i) ==
    IF i > Len(u) THEN <<>>
    ELSE IF u[i] \in 55296..56319 /\ i < Len(u) /\ u[i + 1] \in 56320..57343
    THEN <<65536 + (u[i] - 55296) * 1024 + (u[i + 1] - 56320)>>
         \o Utf16Units(u, i + 2)
    ELSE IF u[i] \in 55296..57343 THEN <<65533>> \o Utf16Units(u, i + 1)
    ELSE <<u[i]>> \o Utf16Units(u, i + 1)

\* bytes.decode("utf-16le", errors="replace"): an odd byte at the end is
\* replaced by U+FFFD, unless it follows a high surrogate: the surrogate
\* and the byte are then one error and one U+FFFD
Utf16Decode(bytes) ==
    LET u == [i \in 1..(Len(bytes) \div 2) |->
                 bytes[2 * i - 1] + 256 * bytes[2 * i]]
    IN  Utf16Units(u, 1)
        \o (IF Len(bytes) % 2 = 1
               /\ ~(u # <<>> /\ u[Len(u)] \in 55296..56319)
            THEN <<65533>> ELSE <<>>)

\* str.rstrip("\0")
RStripNul(str) ==
    SubSeq(str, 1, Max(0, CHOOSE n \in 0..Len(str) :
                              /\ n = 0 \/ str[n] # 0
                              /\ \A j \in (n + 1)..Len(str) : str[j] = 0))

\* Reader.string(): the length, the slice of the view of that many bytes
\* (code units when negative), decoded and stripped of trailing NULs
ReaderString(r) ==
    Bind(ReaderUnpack(r, 4), LAMBDA u :
    IF u.err # NoErr THEN [pos |-> u.pos, err |-> u.err, str |-> <<>>]
    ELSE
    Bind(I32Val(u.bytes), LAMBDA length :
    IF length > 0
    THEN [pos |-> u.pos + length, err |-> NoErr,
          str |-> RStripNul(AsciiDecode(PySlice(r.view, u.pos,
                                                u.pos + length)))]
    ELSE IF length < 0
    THEN [pos |-> u.pos + (0 - 2) * length, err |-> NoErr,
          str |-> RStripNul(Utf16Decode(PySlice(r.view, u.pos,
                                                u.pos + (0 - 2) * length)))]
    ELSE [pos |-> u.pos, err |-> NoErr, str |-> <<>>]))

\* the code points of the strings: a, NUL, DEL, e-acute, an emoji outside
\* the basic plane, a lone surrogate
StrChars == {97, 0, 127, 233, 128512, 55296}

StrInputs ==
    {<<>>} \cup {<<c>> : c \in StrChars}
    \cup {<<c, d>> : c \in StrChars, d \in StrChars}
    \cup {<<c, d, 0>> : c \in StrChars, d \in StrChars}

\* Writer().string(value)
writer_string(value) ==
    \E x \in {WriterString(NewWriter, value)} :
        /\ codec' = [err |-> x.err, bytes |-> x.writer.buf,
                     stage |-> "Writer.string", given |-> value]
        /\ last' = Call("Writer.string", None, x.err, None)
        /\ UNCHANGED <<version, key, entrys, reader, footer, mount_point,
                       path_hash_seed, disk, ntmp, added, nops>>

\* Reader(b).string() on the bytes the last Writer.string emitted
reader_string ==
    /\ codec.stage = "Writer.string"
    /\ codec.err = NoErr
    /\ \E x \in {ReaderString(OpenReader(None, codec.bytes))} :
           /\ codec' = [pos |-> x.pos, err |-> x.err,
                        bytes |-> codec.bytes, stage |-> "Reader.string",
                        str |-> x.str, given |-> codec.given]
           /\ last' = Call("Reader.string", None, x.err, None)
    /\ UNCHANGED <<version, key, entrys, reader, footer, mount_point,
                   path_hash_seed, disk, ntmp, added, nops>>

(***************************************************************************)
(* utils.py and index.py: the full-directory index.  Paths are strings of  *)
(* code points; a dict is the sequence of its items in insertion order.    *)
(***************************************************************************)
Slash == 47

RECURSIVE RStripSlash(_)
\* path.rstrip("/")
RStripSlash(path) ==
    IF path # <<>> /\ path[Len(path)] = Slash
    THEN RStripSlash(SubSeq(path, 1, Len(path) - 1)) ELSE path

RECURSIVE LStripSlash(_)
\* dir_name.lstrip("/")
LStripSlash(path) ==
    IF path # <<>> /\ Head(path) = Slash THEN LStripSlash(Tail(path))
    ELSE path

\* a left strip that removes nothing
\* path.rfind("/"), 0-based, -1 when there is none
RFindSlash(path) ==
    IF \E i \in 1..Len(path) : path[i] = Slash
    THEN (CHOOSE i \in 1..Len(path) :
              /\ path[i] = Slash
              /\ \A j \in (i + 1)..Len(path) : path[j] # Slash) - 1
    ELSE 0 - 1

\* split_path_child(path): none stands for the result None
SplitPathChild(path) ==
    IF path = <<Slash>> \/ path = <<>>
    THEN [none |-> TRUE, parent |-> <<>>, child |-> <<>>]
    ELSE Bind(RStripSlash(path), LAMBDA q :
         Bind(RFindSlash(q), LAMBDA idx :
         IF idx # 0 - 1
         THEN [none |-> FALSE, parent |-> SubSeq(q, 1, idx + 1),
               child |-> SubSeq(q, idx + 2, Len(q))]
         ELSE [none |-> FALSE, parent |-> <<Slash>>, child |-> q]))

\* the dict fdi: items [dir, files], files the items [name, offset]
FdiHas(fdi, dir) == \E i \in 1..Len(fdi) : fdi[i].dir = dir
FdiIndex(fdi, dir) == CHOOSE i \in 1..Len(fdi) : fdi[i].dir = dir

\* fdi.setdefault(parent, {})
FdiSetDefault(fdi, dir) ==
    IF FdiHas(fdi, dir) THEN fdi
    ELSE Append(fdi, [dir |-> dir, files |-> <<>>])

\* files[name] = offset
FilesSet(files, name, offset) ==
    IF \E i \in 1..Len(files) : files[i].name = name
    THEN [files EXCEPT ![CHOOSE i \in 1..Len(files) : files[i].name = name]
                          = [offset |-> offset, name |-> name]]
    ELSE Append(files, [offset |-> offset, name |-> name])

RECURSIVE FdiAncestors(_, _)
\* the loop of lines 244-250: a key for every ancestor of p
FdiAncestors(fdi, p) ==
    Bind(SplitPathChild(p), LAMBDA result :
    IF result.none THEN fdi
    ELSE FdiAncestors(FdiSetDefault(fdi, result.parent), result.parent))

RECURSIVE FdiBuild(_, _, _)
\* the loop of lines 242-256 from entry i on
FdiBuild(entries, i, fdi) ==
    IF i > Len(entries) THEN [err |-> NoErr, fdi |-> fdi]
    ELSE
    Bind(FdiAncestors(fdi, entries[i].path), LAMBDA f1 :
    Bind(SplitPathChild(entries[i].path), LAMBDA result :
    IF result.none THEN [err |-> "ValueError", fdi |-> f1]
    ELSE
    \* fdi is a defaultdict: fdi[dir] exists after the ancestors loop
    Bind(FdiIndex(f1, result.parent), LAMBDA k :
    FdiBuild(entries, i + 1,
             [f1 EXCEPT ![k].files =
                 FilesSet(f1[k].files, result.child, entries[i].offset)]))))

RECURSIVE FdiWriteFiles(_, _, _)
FdiWriteFiles(files, j, w) ==
    IF j > Len(files) THEN [err |-> NoErr, writer |-> w]
    ELSE
    Bind(WriterString(w, files[j].name), LAMBDA ws :
    IF ws.err # NoErr THEN ws
    ELSE
    Bind(WriterUint(ws.writer, 4, files[j].offset), LAMBDA wo :
    IF wo.err # NoErr THEN [err |-> wo.err, writer |-> wo]
    ELSE FdiWriteFiles(files, j + 1, wo)))

RECURSIVE FdiWriteDirs(_, _, _)
FdiWriteDirs(fdi, i, w) ==
    IF i > Len(fdi) THEN [err |-> NoErr, writer |-> w]
    ELSE
    Bind(WriterString(w, fdi[i].dir), LAMBDA ws :
    IF ws.err # NoErr THEN ws
    ELSE
    Bind(WriterUint(ws.writer, 4, Len(fdi[i].files)), LAMBDA wn :
    IF wn.err # NoErr THEN [err |-> wn.err, writer |-> wn]
    ELSE
    Bind(FdiWriteFiles(fdi[i].files, 1, wn), LAMBDA wf :
    IF wf.err # NoErr THEN wf ELSE FdiWriteDirs(fdi, i + 1, wf.writer))))

\* generate_fdi(writer, entries), entries the pairs [path, offset]
GenerateFdi(w, entries) ==
    Bind(FdiBuild(entries, 1, <<>>), LAMBDA b :
    IF b.err # NoErr THEN [err |-> b.err, writer |-> w, fdi |-> b.fdi]
    ELSE
    Bind(WriterUint(w, 4, Len(b.fdi)), LAMBDA wn :
    IF wn.err # NoErr THEN [err |-> wn.err, writer |-> wn, fdi |-> b.fdi]
    ELSE
    Bind(FdiWriteDirs(b.fdi, 1, wn), LAMBDA x :
    [err |-> x.err, writer |-> x.writer, fdi |-> b.fdi])))

(***************************************************************************)
(* index.py: Index.read.  The footer is the record of the fields that      *)
(* Index.read uses: version, index_offset, index_size, is_encrypted and    *)
(* compresion (the list of compression methods).                           *)
(***************************************************************************)
\* Reader.buffer(offset, size): a reader over a slice of the view; the
\* view of a closed reader is None, which cannot be sliced: TypeError
ReaderBuffer(r, offset, size) ==
    IF ~r.open THEN [err |-> "TypeError", reader |-> NewReader]
    ELSE [err |-> NoErr,
          reader |-> OpenReader(None, PySlice(r.view, offset,
                                              ClampAdd(offset, size)))]

\* Reader.uint32 / Reader.uint64 at the cursor of r: val is a number of
\* eight digits (W)
ReadUint(r, w) ==
    Bind(ReaderUnpack(r, w), LAMBDA u :
    [pos |-> u.pos, err |-> u.err,
     val |-> IF u.err # NoErr THEN W(0)
             ELSE IF w = 4 THEN U32Val(u.bytes) ELSE U64Val(u.bytes)])

\* Reader.int32 at the cursor of r
ReadInt32(r) ==
    Bind(ReaderUnpack(r, 4), LAMBDA u :
    [pos |-> u.pos, err |-> u.err,
     val |-> IF u.err # NoErr THEN 0 ELSE I32Val(u.bytes)])

\* a sub-index: offset, size and hash read from the primary index, then
\* reader.buffer(offset, size), decrypted when the index is encrypted
SubIndexReader(rd, ir, encrypted, k) ==
    Bind(ReadUint(ir, 8), LAMBDA off :
    IF off.err # NoErr THEN [pos |-> off.pos, err |-> off.err, sub |-> NewReader]
    ELSE
    Bind(ReadUint([ir EXCEPT !.pos = off.pos], 8), LAMBDA sz :
    IF sz.err # NoErr THEN [pos |-> sz.pos, err |-> sz.err, sub |-> NewReader]
    ELSE
    Bind(ReaderRead([ir EXCEPT !.pos = sz.pos], 20), LAMBDA h :
    IF h.err # NoErr THEN [pos |-> h.pos, err |-> h.err, sub |-> NewReader]
    ELSE
    Bind(ReaderBuffer(rd, Clamp(off.val), Clamp(sz.val)), LAMBDA buf :
    IF buf.err # NoErr
    THEN [pos |-> h.pos, err |-> buf.err, sub |-> NewReader]
    ELSE IF ~encrypted
    THEN [pos |-> h.pos, err |-> NoErr, sub |-> buf.reader]
    ELSE
    Bind(ReaderRead(buf.reader, Clamp(sz.val)), LAMBDA raw :
    IF raw.err # NoErr THEN [pos |-> h.pos, err |-> raw.err, sub |-> NewReader]
    ELSE
    Bind(decrypt(k, raw.bytes), LAMBDA d :
    [pos |-> h.pos, err |-> d.err, sub |-> OpenReader(None, d.data)]))))))

\* the path hash index, lines 81-88: count records of a u64 and a u32; what
\* is read is not used afterwards
PhiRead(sub) ==
    Bind(ReadUint(sub, 4), LAMBDA count :
    IF count.err # NoErr THEN count.err
    ELSE IF Clamp(count.val) > 0
            /\ (Clamp(count.val) > Len(sub.view)
                \/ 4 + 12 * Clamp(count.val) > Len(sub.view))
    THEN "StructError"
    ELSE NoErr)

RECURSIVE FdiReadFiles(_, _, _)
\* lines 113-115: left files of a directory
FdiReadFiles(sub, left, files) ==
    IF left = 0 THEN [pos |-> sub.pos, err |-> NoErr, files |-> files]
    ELSE
    Bind(ReaderString(sub), LAMBDA name :
    IF name.err # NoErr
    THEN [pos |-> name.pos, err |-> name.err, files |-> files]
    ELSE
    Bind(ReadInt32([sub EXCEPT !.pos = name.pos]), LAMBDA off :
    IF off.err # NoErr
    THEN [pos |-> off.pos, err |-> off.err, files |-> files]
    ELSE FdiReadFiles([sub EXCEPT !.pos = off.pos], left - 1,
                      FilesSet(files, name.str, off.val))))

\* directories[dir_name] = files
DirsSet(dirs, dir, files) ==
    IF FdiHas(dirs, dir)
    THEN [dirs EXCEPT ![FdiIndex(dirs, dir)] = [dir |-> dir, files |-> files]]
    ELSE Append(dirs, [dir |-> dir, files |-> files])

RECURSIVE FdiReadDirs(_, _, _)
\* lines 109-116: left directories
FdiReadDirs(sub, left, dirs) ==
    IF left = 0 THEN [err |-> NoErr, dirs |-> dirs]
    ELSE
    Bind(ReaderString(sub), LAMBDA name :
    IF name.err # NoErr THEN [err |-> name.err, dirs |-> dirs]
    ELSE
    Bind(ReadUint([sub EXCEPT !.pos = name.pos], 4), LAMBDA count :
    IF count.err # NoErr THEN [err |-> count.err, dirs |-> dirs]
    ELSE
    Bind(FdiReadFiles([sub EXCEPT !.pos = count.pos], Clamp(count.val),
                      <<>>),
         LAMBDA fs :
    IF fs.err # NoErr THEN [err |-> fs.err, dirs |-> dirs]
    ELSE FdiReadDirs([sub EXCEPT !.pos = fs.pos], left - 1,
                     DirsSet(dirs, name.str, fs.files)))))

\* lines 108-116: the full-directory index
FdiRead(sub) ==
    Bind(ReadUint(sub, 4), LAMBDA count :
    IF count.err # NoErr THEN [err |-> count.err, dirs |-> <<>>]
    ELSE FdiReadDirs([sub EXCEPT !.pos = count.pos], Clamp(count.val),
                     <<>>))

\* line 145: the path of a file of a directory
JoinPath(dir, name) == LStripSlash(dir) \o name

RECURSIVE ResolveFiles(_, _, _, _, _, _, _)
\* lines 132-146 for the files of one directory from file j on.  read_encoded
\* is a hybrid_method, a classmethod: entry.read_encoded(...) fills a
\* temporary Entry and the entry stored under the path stays as
\* Entry() made it
ResolveFiles(dir, files, j, encoded, ver, compressions, items) ==
    IF j > Len(files) THEN [err |-> NoErr, items |-> items]
    ELSE IF files[j].offset < 0
    THEN \* not_encoded_entries is a list that is never filled
         [err |-> "IndexError", items |-> items]
    ELSE
    Bind(ReadEncoded([OpenReader(None, encoded) EXCEPT
                         !.pos = files[j].offset], ver, compressions),
         LAMBDA x :
    IF x.err # NoErr THEN [err |-> x.err, items |-> items]
    ELSE ResolveFiles(dir, files, j + 1, encoded, ver, compressions,
                      DictSet(items, JoinPath(dir, files[j].name), NewEntry)))

RECURSIVE ResolveDirs(_, _, _, _, _, _)
\* lines 131-146 from directory i on
ResolveDirs(dirs, i, encoded, ver, compressions, items) ==
    IF i > Len(dirs) THEN [err |-> NoErr, items |-> items]
    ELSE
    Bind(ResolveFiles(dirs[i].dir, dirs[i].files, 1, encoded, ver,
                      compressions, items), LAMBDA x :
    IF x.err # NoErr THEN x
    ELSE ResolveDirs(dirs, i + 1, encoded, ver, compressions, x.items))

\* lines 64-148: the index of V10 and V11.  self.entrys is assigned at the
\* end only; a not-encoded entry is read and then appended to
\* self.entrys, a dict, which has no append
IndexReadV10(rd, ir, ft, k) ==
    LET Bad(e) == [err |-> e, entrys |-> <<>>]
        At(q) == [ir EXCEPT !.pos = q]
    IN
    Bind(ReadUint(ir, 8), LAMBDA seed :
    IF seed.err # NoErr THEN Bad(seed.err) ELSE
    Bind(ReadUint(At(seed.pos), 4), LAMBDA has_phi :
    IF has_phi.err # NoErr THEN Bad(has_phi.err) ELSE
    Bind(IF has_phi.val = W(0)
         THEN [pos |-> has_phi.pos, err |-> NoErr, sub |-> NewReader]
         ELSE SubIndexReader(rd, At(has_phi.pos), ft.is_encrypted, k),
         LAMBDA phi :
    IF phi.err # NoErr THEN Bad(phi.err)
    ELSE IF has_phi.val # W(0) /\ PhiRead(phi.sub) # NoErr
    THEN Bad(PhiRead(phi.sub)) ELSE
    Bind(ReadUint(At(phi.pos), 4), LAMBDA has_fdi :
    IF has_fdi.err # NoErr THEN Bad(has_fdi.err) ELSE
    Bind(IF has_fdi.val = W(0)
         THEN [pos |-> has_fdi.pos, err |-> NoErr, sub |-> NewReader]
         ELSE SubIndexReader(rd, At(has_fdi.pos), ft.is_encrypted, k),
         LAMBDA fdi :
    IF fdi.err # NoErr THEN Bad(fdi.err) ELSE
    Bind(IF has_fdi.val = W(0) THEN [err |-> NoErr, dirs |-> <<>>]
         ELSE FdiRead(fdi.sub), LAMBDA directories :
    IF directories.err # NoErr THEN Bad(directories.err) ELSE
    Bind(ReadInt32(At(fdi.pos)), LAMBDA size :
    IF size.err # NoErr THEN Bad(size.err)
    ELSE IF size.pos + size.val > Len(ir.view) THEN Bad("EOFError") ELSE
    Bind(PySlice(ir.view, size.pos, size.pos + size.val), LAMBDA encoded :
    Bind(ReadUint(At(size.pos + size.val), 4), LAMBDA count :
    IF count.err # NoErr THEN Bad(count.err)
    ELSE IF count.val # W(0)
    THEN Bind(EntryRead(At(count.pos), ft.version), LAMBDA e :
              Bad(IF e.err # NoErr THEN e.err ELSE "AttributeError"))
    ELSE
    Bind(ResolveDirs(directories.dirs, 1, encoded, ft.version,
                     ft.compresion, <<>>), LAMBDA x :
    IF x.err # NoErr THEN Bad(x.err)
    ELSE [err |-> NoErr, entrys |-> x.items]))))))))))

RECURSIVE IndexReadOld(_, _, _, _)
\* lines 151-156: the index below V10, left records of a path and a
\* full-form entry; self.entrys holds what was read so far.  Entry.read is
\* a hybrid_method too: the entry stored stays as Entry() made it
IndexReadOld(ir, left, ver, items) ==
    IF left = 0 THEN [err |-> NoErr, entrys |-> items]
    ELSE
    Bind(ReaderString(ir), LAMBDA path :
    IF path.err # NoErr THEN [err |-> path.err, entrys |-> items]
    ELSE
    Bind(EntryRead([ir EXCEPT !.pos = path.pos], ver), LAMBDA e :
    IF e.err # NoErr THEN [err |-> e.err, entrys |-> items]
    ELSE IndexReadOld([ir EXCEPT !.pos = e.pos], left - 1, ver,
                      DictSet(items, path.str, NewEntry))))

\* Index().read(reader, footer, key)
IndexRead(rd, ft, k) ==
    LET Bad(e) == [err |-> e, entrys |-> <<>>, mount_point |-> <<>>]
    IN
    Bind(ReaderBuffer(rd, ft.index_offset, ft.index_size), LAMBDA buf :
    Bind(IF buf.err # NoErr \/ ~ft.is_encrypted THEN buf
         ELSE Bind(ReaderRead(buf.reader, ft.index_size), LAMBDA raw :
              IF raw.err # NoErr THEN [err |-> raw.err, reader |-> buf.reader]
              ELSE Bind(decrypt(k, raw.bytes), LAMBDA d :
                   [err |-> d.err, reader |-> OpenReader(None, d.data)])),
         LAMBDA opened :
    IF opened.err # NoErr THEN Bad(opened.err) ELSE
    Bind(ReaderString(opened.reader), LAMBDA mount :
    IF mount.err # NoErr THEN Bad(mount.err) ELSE
    Bind(ReadUint([opened.reader EXCEPT !.pos = mount.pos], 4),
         LAMBDA count :
    IF count.err # NoErr
    THEN [err |-> count.err, entrys |-> <<>>, mount_point |-> mount.str]
    ELSE
    Bind(IF ft.version >= V10
         THEN IndexReadV10(rd, [opened.reader EXCEPT !.pos = count.pos],
                           ft, k)
         ELSE IndexReadOld([opened.reader EXCEPT !.pos = count.pos],
                           Clamp(count.val), ft.version, <<>>), LAMBDA x :
    [err |-> x.err, entrys |-> x.entrys, mount_point |-> mount.str])))))

RECURSIVE PhiRecords(_, _, _, _)
\* the loop of generate_phi from entry i on
PhiRecords(w, entries, i, seed) ==
    IF i > Len(entries) THEN [err |-> NoErr, writer |-> w]
    ELSE
    Bind(Fnv64Path(entries[i].path, seed), LAMBDA h :
    IF h.err # NoErr THEN [err |-> h.err, writer |-> w]
    ELSE
    Bind(WriterWrite(w, h.hash), LAMBDA wh :
    IF wh.err # NoErr THEN [err |-> wh.err, writer |-> wh]
    ELSE
    Bind(WriterUint(wh, 4, entries[i].offset), LAMBDA w1 :
    IF w1.err # NoErr THEN [err |-> w1.err, writer |-> w1]
    ELSE PhiRecords(w1, entries, i + 1, seed))))

\* generate_phi(writer, entries, path_hash_seed) for a 64-bit seed
GeneratePhi(w, entries, seed) ==
    Bind(WriterUint(w, 4, Len(entries)), LAMBDA wn :
    IF wn.err # NoErr THEN [err |-> wn.err, writer |-> wn]
    ELSE
    Bind(PhiRecords(wn, entries, 1, seed), LAMBDA x :
    IF x.err # NoErr THEN x
    ELSE Bind(WriterUint(x.writer, 4, 0), LAMBDA w1 :
         [err |-> w1.err, writer |-> w1])))

(***************************************************************************)
(* Indexes to read.  Index.write never gets as far as writing one (see     *)
(* IndexWrite), so the indexes handed to Index.read are laid out here as   *)
(* lines 167-226 describe them, with getvalue() where the lines read       *)
(* Writer.file: mount point, entry count, and from V10 on the seed, the    *)
(* two sub-index locators, the encoded entries and the not-encoded table,  *)
(* followed by the path hash index and the full-directory index; below     *)
(* V10 a path and a full-form header per entry.                            *)
(***************************************************************************)
\* the bytes Writer.string emits for an ASCII string
StringBytes(str) == WriterString(NewWriter, str).writer.buf

\* the plain entry of the i-th path: 3 + i bytes at offset 10 * i
ListedEntry(i) ==
    EncEntry(W(10 * i), W(3 + i), W(3 + i), NoName, FALSE, W(0), 0)

RECURSIVE EncodedBlob(_, _, _, _)
\* lines 181-183: the encoded entries of the paths and their offsets
EncodedBlob(paths, i, w, offsets) ==
    IF i > Len(paths) THEN [bytes |-> w.buf, offsets |-> offsets]
    ELSE EncodedBlob(paths, i + 1, WriteEncoded(ListedEntry(i), w, V11).writer,
                     Append(offsets, [offset |-> Len(w.buf),
                                      path |-> paths[i]]))

\* the full-directory index of an fdi whose offsets may be negative
FdiFilesLayout(files) ==
    Concat([j \in 1..Len(files) |->
               StringBytes(files[j].name) \o I32(files[j].offset)])

FdiLayout(fdi) ==
    LE(Len(fdi), 4)
    \o Concat([i \in 1..Len(fdi) |->
                  StringBytes(fdi[i].dir) \o LE(Len(fdi[i].files), 4)
                  \o FdiFilesLayout(fdi[i].files)])

\* a full-form header of an uncompressed entry at the given offset
FullHeader(v, offset, size) ==
    LET h == StoredHeader(v, 0, <<>>, size, size, FALSE, 0)
    IN  LE(offset, 8) \o SubSeq(h, 9, Len(h))

\* the index of V10 and V11 at archive position base: the primary index,
\* then the path hash index phi and the full-directory index fdi.  count
\* is the entry count, blob the encoded entries, full the headers of the
\* not-encoded table.
IndexV10(v, base, mount, count, seed, blob, full, phi, fdi) ==
    LET tail == LE(Len(blob), 4) \o blob \o LE(Len(full), 4) \o Concat(full)
        size == Len(StringBytes(mount)) + 4 + 8 + 40 + 40 + Len(tail)
    IN  [bytes |-> Zeros(base)
                   \o StringBytes(mount) \o LE(count, 4) \o LE(seed, 8)
                   \o LE(1, 4) \o LE(base + size, 8) \o LE(Len(phi), 8)
                   \o Sha1(phi)
                   \o LE(1, 4) \o LE(base + size + Len(phi), 8)
                   \o LE(Len(fdi), 8) \o Sha1(fdi)
                   \o tail \o phi \o fdi,
         footer |-> [version |-> v, is_encrypted |-> FALSE,
                     compresion |-> CompressionList, index_offset |-> base,
                     index_size |-> size]]

\* the index below V10 at archive position base
IndexOld(v, base, mount, paths) ==
    LET primary ==
            StringBytes(mount) \o LE(Len(paths), 4)
            \o Concat([i \in 1..Len(paths) |->
                          StringBytes(paths[i])
                          \o FullHeader(v, 10 * i, 3 + i)])
    IN  [bytes |-> Zeros(base) \o primary,
         footer |-> [version |-> v, is_encrypted |-> FALSE,
                     compresion |-> CompressionList, index_offset |-> base,
                     index_size |-> Len(primary)]]

\* the index Index.write lays out for the paths at version v
WrittenIndex(v, base, mount, seed, paths) ==
    IF v < V10 THEN IndexOld(v, base, mount, paths)
    ELSE
    Bind(EncodedBlob(paths, 1, NewWriter, <<>>), LAMBDA enc :
    IndexV10(v, base, mount, Len(paths), seed, enc.bytes, <<>>,
             GeneratePhi(NewWriter, enc.offsets, W(seed)).writer.buf,
             GenerateFdi(NewWriter, enc.offsets).writer.buf))

\* code points of a, b, d, e
FdiPaths ==
    {<<97>>, <<100, 47, 97>>, <<100, 47, 101, 47, 97>>, <<100, 47, 98>>,
     <<47, 97>>, <<47, 100, 47, 97>>, <<97, 47>>, <<100, 47, 47, 97>>,
     <<47, 47, 97>>}

\* the paths of an index: one or two paths, or three
PathLists ==
    {<<p>> : p \in FdiPaths}
    \cup {pq \in FdiPaths \X FdiPaths : pq[1] # pq[2]}
    \cup {<<<<100, 47, 101, 47, 97>>, <<97>>, <<100, 47, 98>>>>}

\* an index of V11 with the file a in the encoded entries and the file b in
\* the not-encoded table, which the directory index names by -1
NotEncodedIndex(v, base) ==
    Bind(EncodedBlob(<<<<97>>>>, 1, NewWriter, <<>>), LAMBDA enc :
    IndexV10(v, base, DefaultMountPoint, 2, 0, enc.bytes,
             <<FullHeader(v, 40, 4)>>,
             GeneratePhi(NewWriter, enc.offsets, W(0)).writer.buf,
             FdiLayout(<<[dir |-> <<Slash>>,
                          files |-> <<[offset |-> 0, name |-> <<97>>],
                                      [offset |-> 0 - 1,
                                       name |-> <<98>>]>>]>>)))

\* an index of V11 whose directory index names a file by -1 while the
\* not-encoded table is empty
DanglingIndex(v, base) ==
    IndexV10(v, base, DefaultMountPoint, 1, 0, <<>>, <<>>,
             GeneratePhi(NewWriter, <<>>, W(0)).writer.buf,
             FdiLayout(<<[dir |-> <<Slash>>,
                          files |-> <<[offset |-> 0 - 1,
                                       name |-> <<98>>]>>]>>))

(***************************************************************************)
(* pak.py: the mount point and the path hash seed of a PakFile             *)
(***************************************************************************)
\* "/" and "Game/", as code points
MountPoints == {<<47>>, <<71, 97, 109, 101, 47>>}

\* a seed argument: an int, or a value of another type
IntSeed(n) == [val |-> n, type |-> "int"]
SeedInputs == {IntSeed(0), IntSeed(1), IntSeed(77), [val |-> 0, type |-> "str"]}

\* PakFile.set_mount_point(mount_point)
set_mount_point(m) ==
    /\ mount_point' = m
    /\ last' = Call("set_mount_point", None, NoErr, None)
    /\ UNCHANGED <<version, key, entrys, reader, footer, path_hash_seed,
                   disk, ntmp, added, codec>>

\* PakFile.set_path_hash_seed(seed)
set_path_hash_seed(seed) ==
    /\ IF seed.type # "int"
       THEN /\ last' = Call("set_path_hash_seed", None, "ValueError", None)
            /\ UNCHANGED path_hash_seed
       ELSE /\ path_hash_seed' = seed.val
            /\ last' = Call("set_path_hash_seed", None, NoErr, None)
    /\ UNCHANGED <<version, key, entrys, reader, footer, mount_point, disk,
                   ntmp, added, codec>>

\* a PakFile that is given a mount point, a seed, a version and one file,
\* and is written
NextMount ==
    \/ \E m \in MountPoints : Step /\ set_mount_point(m)
    \/ \E seed \in SeedInputs : Step /\ set_path_hash_seed(seed)
    \/ \E v \in {V2, V9, V11} : Step /\ set_version(v)
    \/ \E d \in {<<7>>, <<8, 9>>} : Step /\ add_file(Top, d)
    \/ \E f \in Files : Step /\ write(f)

SpecMount == Init /\ [][NextMount]_vars

InitText ==
    /\ PakInit
    /\ disk = [n \in AllFiles |-> NoFile]
    /\ codec = [stage |-> "idle"]

NextText ==
    \/ \E path \in PathInputs, seed \in Seeds : fnv64_path(path, seed)
    \/ \E value \in StrInputs : writer_string(value)
    \/ reader_string

SpecText == InitText /\ [][NextText]_vars

(***************************************************************************)
(* footer.py: Footer.write and Footer.read on their own                    *)
(***************************************************************************)
FooterOffsets == {0, 73, 70000}
FooterSizes == {0, 40}
FooterHashes == {Zeros(20), [i \in 1..20 |-> i]}
\* bytes of the archive in front of the footer
FooterPrefixes == {0, 10, 200}

\* Footer().write(Writer(), version, offset, size, hash)
footer_write(v, offset, size, hash) ==
    \E x \in {FooterWrite(NewWriter, v, offset, size, hash)} :
        /\ codec' = [err |-> x.err, bytes |-> x.bytes,
                     version |-> v, offset |-> offset, size |-> size,
                     hash |-> hash, stage |-> "Footer.write"]
        /\ last' = Call("Footer.write", v, x.err, None)
        /\ UNCHANGED <<version, key, entrys, reader, footer, mount_point,
                       path_hash_seed, disk, ntmp, added, nops>>

\* Footer().read(Reader(b)) on an archive that ends with the footer the
\* last Footer.write emitted
footer_read(prefix) ==
    /\ codec.stage = "Footer.write"
    /\ codec.err = NoErr
    /\ \E x \in {FooterRead(Zeros(prefix) \o codec.bytes)} :
           /\ codec' = [pos |-> x.pos, err |-> x.err,
                        version |-> x.version, stage |-> "Footer.read",
                        written |-> codec.version, prefix |-> prefix]
           /\ last' = Call("Footer.read", codec.version, x.err, None)
    /\ UNCHANGED <<version, key, entrys, reader, footer, mount_point,
                   path_hash_seed, disk, ntmp, added, nops>>

NextFooter ==
    \/ \E v \in PakVersion, offset \in FooterOffsets, size \in FooterSizes,
          hash \in FooterHashes : footer_write(v, offset, size, hash)
    \/ \E prefix \in FooterPrefixes : footer_read(prefix)

SpecFooter == InitText /\ [][NextFooter]_vars

\* the indexes handed to Index.read: kind tells how the index was made
IndexInputs ==
    {[index |-> WrittenIndex(v, base, DefaultMountPoint, 0, ps), paths |-> ps,
      kind |-> "written"] :
         v \in {V7, V10, V11}, base \in {0, 37}, ps \in PathLists}
    \cup {[index |-> NotEncodedIndex(v, 0), paths |-> <<<<97>>, <<98>>>>,
           kind |-> "not_encoded"] : v \in {V10, V11}}
    \cup {[index |-> DanglingIndex(V11, 3), paths |-> <<<<98>>>>,
           kind |-> "dangling"]}

\* the path lists handed to generate_fdi, with the paths "" and "/"
FdiInputs ==
    PathLists \cup {<<<<>>>>, <<<<Slash>>>>, <<<<97>>, <<Slash>>>>}

\* generate_fdi(Writer(), entries) for the paths at offsets 0, 12, 24
generate_fdi(paths) ==
    \E x \in {GenerateFdi(NewWriter,
                          [i \in 1..Len(paths) |->
                              [offset |-> 12 * (i - 1), path |-> paths[i]]])} :
        /\ codec' = [err |-> x.err, bytes |-> x.writer.buf,
                     stage |-> "generate_fdi", fdi |-> x.fdi, paths |-> paths]
        /\ last' = Call("generate_fdi", None, x.err, None)
        /\ UNCHANGED <<version, key, entrys, reader, footer, mount_point,
                       path_hash_seed, disk, ntmp, added, nops>>

\* Index().read(Reader(bytes), footer, key)
index_read(a) ==
    \E x \in {IndexRead(OpenReader(None, a.index.bytes), a.index.footer,
                        key)} :
        /\ codec' = [err |-> x.err, version |-> a.index.footer.version,
                     stage |-> "Index.read", entrys |-> x.entrys,
                     mount_point |-> x.mount_point, paths |-> a.paths,
                     kind |-> a.kind]
        /\ last' = Call("Index.read", None, x.err, None)
        /\ UNCHANGED <<version, key, entrys, reader, footer, mount_point,
                       path_hash_seed, disk, ntmp, added, nops>>

NextIndex ==
    \/ \E paths \in FdiInputs : generate_fdi(paths)
    \/ \E a \in IndexInputs : index_read(a)

SpecIndex == InitText /\ [][NextIndex]_vars


(***************************************************************************)
(* What a caller sees when the file f is opened with a new PakFile:        *)
(* PakFile().read(f), list_files() and read_file(p).  A read that raises   *)
(* leaves the new PakFile with its empty index and version V11.            *)
(***************************************************************************)
Reopened(f) ==
    LET c == disk[Name(f)]
        r == PakRead(f, FileBytes(c))
    IN  IF OpenFile(c) # NoErr
        THEN [err |-> OpenFile(c), version |-> V11, reader |-> NewReader,
              entrys |-> <<>>]
        ELSE [err |-> r.err, version |-> V11, reader |-> r.reader,
              entrys |-> <<>>]

ReopenedReadFile(f, p) ==
    LET ro == Reopened(f)
    IN  IF ~Has(ro.entrys, p) THEN [err |-> "KeyError", data |-> <<>>]
        ELSE ExtractFile(Get(ro.entrys, p), ro.reader, ro.version, DefaultKey)

\* the step is a call (not a stuttering step)
Called(op) == nops' # nops /\ last'.op = op

\* C1: after write(f), opening f with a new PakFile succeeds and read_file
\* returns, for every path added, the bytes that were added for it.
C1_WriteReadRoundTrip ==
    last.op = "write" =>
        /\ last.err = NoErr
        /\ Reopened(last.arg).err = NoErr
        /\ \A i \in 1..Len(added) :
               LET x == ReopenedReadFile(last.arg, added[i].path)
               IN  x.err = NoErr /\ x.data = added[i].e

\* C2: list_files() of the archive re-opened after write is the sequence of
\* paths in the order in which add_file inserted them.
C2_ListKeepsInsertionOrder ==
    last.op = "write" =>
        /\ last.err = NoErr
        /\ Reopened(last.arg).err = NoErr
        /\ Keys(Reopened(last.arg).entrys) = Keys(added)

\* C3: an archive written after set_version(v) is detected as version v
\* when it is read.
C3_VersionReadBack ==
    last.op = "write" =>
        /\ last.err = NoErr
        /\ LET c == disk[Name(last.arg)]
           IN  /\ OpenFile(c) = NoErr
               /\ check_pak_version(FileBytes(c)).err = NoErr
               /\ check_pak_version(FileBytes(c)).version = version

\* C4: add_file on a path the index holds keeps the entry count and the
\* position of the path, which is listed once; after write and re-open
\* read_file returns the bytes of the latest add_file.
C4_AddFileReplaces ==
    /\ [][Called("add_file") /\ Has(entrys, last'.arg) =>
            /\ Len(entrys') = Len(entrys)
            /\ Keys(entrys') = Keys(entrys)
            /\ Get(entrys', last'.arg).data = Get(added', last'.arg)]_vars
    /\ [](last.op = "write" =>
            \A i \in 1..Len(added) :
                LET x == ReopenedReadFile(last.arg, added[i].path)
                IN  x.err = NoErr /\ x.data = added[i].e)

\* the keys of a dict without the path p, order kept
KeysWithout(items, p) == SelectSeq(Keys(items), LAMBDA k : k # p)

\* C5: remove_file and read_file of a path that is not in the index raise
\* KeyError and leave the index as it was; remove_file of a path that is
\* in the index removes that path only and keeps every other entry and the
\* order of the others.
C5_NotFoundAndRemove ==
    [][/\ Called("remove_file") /\ ~Has(entrys, last'.arg) =>
            last'.err = "KeyError" /\ entrys' = entrys
       /\ Called("read_file") /\ ~Has(entrys, last'.arg) =>
            last'.err = "KeyError" /\ entrys' = entrys
       /\ Called("remove_file") /\ Has(entrys, last'.arg) =>
            /\ last'.err = NoErr
            /\ Keys(entrys') = KeysWithout(entrys, last'.arg)
            /\ \A i \in 1..Len(entrys') :
                   entrys'[i].e = Get(entrys, entrys'[i].path)]_vars

\* the path added second of three was removed: the other two are left, in
\* their order
C5_Witness ==
    /\ last.op = "remove_file" /\ last.err = NoErr
    /\ last.arg = Top
    /\ Keys(entrys) = <<DirA, DirB>>
    /\ Keys(added) = Keys(entrys)

\* C6: the file at a destination changes only in a write to it that
\* returns; a write that raises leaves every destination as it was.
C6_FailedWriteKeepsDestination ==
    [][\A f \in Files :
           disk'[Name(f)] # disk[Name(f)] =>
               Called("write") /\ last'.arg = f /\ last'.err = NoErr]_vars

\* a write raised after payloads were streamed to a temporary file, and the
\* destination still holds the bytes it held before
C6_Witness ==
    /\ last.op = "write" /\ last.err # NoErr
    /\ disk[Name(last.arg)] = File(<<79, 76, 68>>, 0)
    /\ \E k \in 1..MaxWrites :
           disk[Tmp(last.arg, k)].exists /\ disk[Tmp(last.arg, k)].bytes # <<>>


\* the key names k
Denotes(x, k) == x \in Encodings(k)

\* C8, as stated: the key is always 32 bytes long; 32 raw bytes, their hex
\* text with an optional 0x and their base64 text set the key to these
\* bytes; every other call fails and leaves the key as it was.
C8_SetKeyAsStated ==
    /\ [](Len(key) = 32)
    /\ [][Called("set_key") =>
            IF \E k \in Keys32 : Denotes(last'.arg, k)
            THEN last'.err = NoErr /\ Denotes(last'.arg, key')
            ELSE last'.err # NoErr /\ key' = key]_vars

\* C8: the key is always 32 bytes long.  set_key sets it to k when it is
\* given the 32 bytes k, the int whose 32-byte big-endian form is k, or a
\* str that, without the white space around it and without a leading 0x,
\* is hex text of k (white space between pairs allowed) or else base64
\* text of k (characters outside the alphabet skipped, text after the pad
\* ignored); every other call fails and leaves the key as it was.
C8_SetKey ==
    /\ [](Len(key) = 32)
    /\ [][Called("set_key") =>
            IF \E k \in Keys32 :
                   last'.arg \in Encodings(k) \cup MoreEncodings(k)
            THEN /\ last'.err = NoErr
                 /\ last'.arg \in Encodings(key') \cup MoreEncodings(key')
            ELSE last'.err # NoErr /\ key' = key]_vars

\* the int whose big-endian bytes are KeyC was accepted as the key after
\* another call
C8_Witness ==
    /\ last.op = "set_key" /\ last.err = NoErr
    /\ last.arg = IntKey(FALSE, Magnitude(KeyC))
    /\ key = KeyC
    /\ nops >= 2

\* the magic is at the bytes that start back bytes before the end
MagicAt(b, back) ==
    Len(b) >= back /\ SubSeq(b, Len(b) - back + 1, Len(b) - back + 4) = MagicBytes

ProbeOffsets == {44, 172, 204, 205}

\* C7: with the default key, opening an archive whose footer flags the
\* index as encrypted fails with DecryptionRequired, and so does extracting
\* an entry flagged is_encrypted: nothing is decrypted with the default key.
C7_DecryptionRequired ==
    /\ (last.op = "read_bytes" /\ key = DefaultKey) =>
           (last.arg \in EncryptedArchives => last.err = "DecryptionRequired")
    /\ (codec.stage = "extract_file" /\ key = DefaultKey) =>
           (codec.entry.is_encrypted =>
                codec.err = "DecryptionRequired" /\ codec.data = <<>>)

\* C9: opening a source that has the magic at none of the four offsets
\* from its end fails with InvalidArchive, and no version is detected.
C9_NoMagicIsInvalidArchive ==
    last.op = "read_bytes" =>
        ((\A back \in ProbeOffsets : ~MagicAt(last.arg, back)) =>
             last.err = "InvalidArchive" /\ footer = NoVersion)

\* the probe offset of the footer layout of a version
BranchOffset(v) ==
    IF v <= V7 THEN 44 ELSE IF v = V8A THEN 172 ELSE IF v = V9 THEN 205 ELSE 204

\* C10: an archive with the footer of version v has the magic at exactly
\* one of the four offsets, the one of v's layout, and v is the version
\* detected, whatever the index hash is.
C10_OneProbeMatches ==
    last.op = "read_bytes" =>
        \A v \in PakVersion, enc \in BOOLEAN, h \in HashChoices :
            last.arg = Archive(v, enc, h) =>
                /\ {back \in ProbeOffsets : MagicAt(last.arg, back)}
                       = {BranchOffset(v)}
                /\ footer = v

\* C11: extracting a Zlib entry whose payload is n >= 1 blocks, each
\* compressed on its own, returns the parts of all n blocks joined in block
\* order, of length entry.size.  The entry's blocks are counted from the
\* first payload byte, as line 257 adds them to the payload offset.
C11_ZlibBlocksConcatenated ==
    \A parts \in PartLists, wire \in {0, 1} :
        (/\ codec.stage = "extract_file"
         /\ codec.entry = ZlibEntry(parts, 0)
         /\ reader.view = ZlibFile(version, wire, parts))
        => /\ codec.err = NoErr
           /\ codec.data = Concat(parts)
           /\ Len(codec.data) = codec.entry.size

\* C12: extracting an uncompressed encrypted entry reads align16(size) bytes
\* after the header and returns the first size bytes of their decryption,
\* whatever the size.
C12_EncryptedPlainRead ==
    \A n \in PlainSizes, t \in Tails :
        (/\ codec.stage = "extract_file"
         /\ codec.entry = PlainEntry(n, TRUE)
         /\ reader.view = PlainFile(version, n, TRUE, t))
        => /\ codec.err = NoErr
           /\ codec.data = SubSeq(AesEcb(key, Payload(Align(n))), 1, n)
           /\ reader.pos = get_serialized_size(version, FALSE, 0) + Align(n)

\* C13: extract_file always ends: every call returns or raises, its chunk
\* loops never go on without end.
C13_ExtractTerminates ==
    codec.stage = "extract_file" => codec.err # "Hang"

\* the size get_serialized_size gives for the header of entry e
HeaderSize(e) ==
    get_serialized_size(version, e.compression # "NONE", Len(e.blocks))

\* C14: at every version get_serialized_size is the number of bytes
\* Entry.write emits for an entry's header (with its block list when it is
\* compressed), the number of header bytes Entry.write_data emits in front
\* of the data, and the number of bytes Entry.read consumes for a stored
\* header.
C14_SerializedSize ==
    /\ codec.stage = "write" =>
           codec.err = NoErr /\ Len(codec.bytes) = HeaderSize(codec.entry)
    /\ codec.stage = "write_data" =>
           Len(codec.bytes) - codec.entry.size
               = get_serialized_size(version, FALSE, 0)
    /\ codec.stage = "read" =>
           \A parts \in PartLists, n \in PlainSizes, enc \in BOOLEAN,
              t \in Tails :
               /\ reader.view = ZlibFile(version, 1, parts) =>
                      /\ codec.err = NoErr
                      /\ codec.pos = get_serialized_size(version, TRUE,
                                                         Len(parts))
               /\ reader.view = PlainFile(version, n, enc, t) =>
                      /\ codec.err = NoErr
                      /\ codec.pos = get_serialized_size(version, FALSE, 0)

\* C15: reading the bytes write_encoded emitted for an entry gives back its
\* offset, size, compressed_size, compression, is_encrypted,
\* compression_block_size and compression_block_count, and consumes all the
\* bytes emitted; also for offsets and sizes above 2^32 - 1 and for block
\* sizes that are no multiple of 2048.
C15_EncodedRoundTrip ==
    (codec.stage = "read_encoded" /\ codec.written) =>
        /\ codec.err = NoErr
        /\ codec.pos = Len(codec.bytes)
        /\ codec.entry.offset = codec.given.offset
        /\ codec.entry.size = codec.given.size
        /\ codec.entry.compressed_size = codec.given.compressed_size
        /\ codec.entry.compression = codec.given.compression
        /\ codec.entry.is_encrypted = codec.given.is_encrypted
        /\ codec.entry.compression_block_size
               = codec.given.compression_block_size
        /\ codec.entry.compression_block_count
               = codec.given.compression_block_count

RECURSIVE WBorrow(_, _, _)
WBorrow(a, b, i) ==
    IF i = 0 THEN 0
    ELSE IF a[i] - b[i] - WBorrow(a, b, i - 1) < 0 THEN 1 ELSE 0

\* a - b for b <= a < b + 2^64
WSub(a, b) == [i \in 1..8 |-> (a[i] - b[i] - WBorrow(a, b, i - 1) + 256) % 256]

RECURSIVE BlocksLength(_, _)
\* the sum of end - start over the first i blocks
BlocksLength(blocks, i) ==
    IF i = 0 THEN W(0)
    ELSE WAdd(BlocksLength(blocks, i - 1),
              WSub(blocks[i].end, blocks[i].start))

\* a call of read_encoded returned an entry with blocks
ReadWithBlocks ==
    /\ codec.stage = "read_encoded"
    /\ codec.err = NoErr
    /\ codec.entry.compression_block_count > 0

\* the blocks start in non-decreasing order and do not overlap
BlocksInOrder(blocks) ==
    /\ \A i \in 1..Len(blocks) : WLeq(blocks[i].start, blocks[i].end)
    /\ \A i \in 1..(Len(blocks) - 1) :
           /\ WLeq(blocks[i].start, blocks[i + 1].start)
           /\ WLeq(blocks[i].end, blocks[i + 1].start)

\* C16: the blocks of an entry that read_encoded returned with a positive
\* block count are in order, do not overlap, and their lengths sum to at
\* least compressed_size.
C16_BlocksAsStated ==
    ReadWithBlocks =>
        /\ BlocksInOrder(codec.entry.blocks)
        /\ WLeq(codec.entry.compressed_size,
                BlocksLength(codec.entry.blocks, Len(codec.entry.blocks)))

\* h * 0x100000001B3 mod 2^64 as (h << 40) + h * 0x1B3
TimesPrime(h) ==
    LET small[i \in 0..8] ==
            IF i = 0 THEN 0 ELSE h[i] * 435 + (small[i - 1] \div 256)
    IN  WAdd([i \in 1..8 |-> IF i <= 5 THEN 0 ELSE h[i - 5]],
             [i \in 1..8 |-> small[i] % 256])

RECURSIVE Fnv1a(_, _, _)
\* FNV-1a over the bytes of data from the i-th on, from accumulator h
Fnv1a(h, data, i) ==
    IF i > Len(data) THEN h
    ELSE Bind(TimesPrime([h EXCEPT ![1] = BitXor(h[1], data[i], 8)]),
              LAMBDA n : Fnv1a(n, data, i + 1))

\* the letters of the paths that have two cases, each as <<capital,
\* small>>: the small letter is one that str.upper() maps to the capital.
\* Capital sigma has two small forms, S the small s and the long s, I the
\* small i and the dotless i
LetterCases ==
    {<<65, 97>>, <<90, 122>>, <<201, 233>>, <<931, 963>>, <<931, 962>>,
     <<83, 115>>, <<83, 383>>, <<73, 105>>, <<73, 305>>}

\* c and d are the two cases of one letter
CasePair(c, d) == <<c, d>> \in LetterCases \/ <<d, c>> \in LetterCases

\* p and q differ at most in the case of their letters
SameButCase(p, q) ==
    /\ Len(p) = Len(q)
    /\ \A i \in 1..Len(p) : p[i] = q[i] \/ CasePair(p[i], q[i])

\* the small letter of an ASCII capital A..Z, any other code point itself
AsciiFold(c) == IF c \in 65..90 THEN c + 32 ELSE c

\* p and q differ at most in the case of their ASCII letters
SameButAsciiCase(p, q) ==
    /\ Len(p) = Len(q)
    /\ \A i \in 1..Len(p) : AsciiFold(p[i]) = AsciiFold(q[i])

\* pairs of paths that differ only in letter case and whose lower cases
\* differ: a capital sigma at the end of a word and inside one, against
\* the other small sigma; S against the long s; I against the dotless i
UnequalCasePairs ==
    {<<<<90, 931>>, <<122, 963>>>>, <<<<931, 97>>, <<962, 97>>>>,
     <<<<83>>, <<383>>>>, <<<<73>>, <<305>>>>}

\* the hash of codec.path is FNV-1a over the UTF-16LE bytes of its lower
\* case, from the accumulator OFFSET + seed
Fnv64PathIsFnv1a ==
    /\ codec.err = NoErr
    /\ codec.hash = Fnv1a(WAdd(FNV_OFFSET, codec.seed),
                          Utf16le(Lower(codec.path)), 1)

\* C17 (as amended): fnv64_path(p, seed) is 64-bit FNV-1a (xor the byte,
\* then multiply by the prime 0x100000001B3 modulo 2^64) over the UTF-16LE
\* bytes of p.lower(), from the accumulator (0xCBF29CE484222325 + seed) mod
\* 2^64; paths that differ only in the case of ASCII letters have the same
\* hash; 'ZΣ' and 'zσ', 'Σa' and 'ςa', 'S' and the long s, 'I' and the
\* dotless i differ only in letter case and have different hashes.
C17_Fnv64Path ==
    (codec.stage = "fnv64_path" /\ Encodable(Lower(codec.path))) =>
        /\ Fnv64PathIsFnv1a
        /\ \A q \in PathInputs :
               SameButAsciiCase(codec.path, q) =>
                   Fnv64Path(q, codec.seed).hash = codec.hash
        /\ \A pq \in UnequalCasePairs :
               codec.path = pq[1] =>
                   /\ SameButCase(pq[1], pq[2])
                   /\ Fnv64Path(pq[2], codec.seed).err = NoErr
                   /\ Fnv64Path(pq[2], codec.seed).hash # codec.hash

\* C17 as stated: any two paths that differ only in letter case have the
\* same hash.
C17_Fnv64PathAsStated ==
    (codec.stage = "fnv64_path" /\ Encodable(Lower(codec.path))) =>
        /\ Fnv64PathIsFnv1a
        /\ \A q \in PathInputs :
               SameButCase(codec.path, q) =>
                   Fnv64Path(q, codec.seed).hash = codec.hash

\* a path of an ASCII capital in front of a capital sigma was hashed with a
\* seed that wraps: its hash is that of the path with the small ASCII
\* letter, and not that of the path with the small sigma
C17_Witness ==
    /\ codec.stage = "fnv64_path"
    /\ codec.err = NoErr
    /\ codec.path = <<90, 931>>
    /\ codec.seed = <<219, 220, 221, 123, 27, 99, 13, 52>>
    /\ codec.hash = Fnv64Path(<<122, 931>>, codec.seed).hash
    /\ codec.hash # Fnv64Path(<<122, 963>>, codec.seed).hash

\* C18: Writer.string(s) emits, for an ASCII s, the length of s with its
\* NUL, the bytes of s and a NUL, and for any other s minus the number of
\* UTF-16 code units of s with its NUL, then the UTF-16LE bytes of s and a
\* NUL; Reader.string on these bytes returns s, also when s is empty or
\* ends in NUL characters, and consumes all of them.
C18_StringRoundTrip ==
    /\ (codec.stage = "Writer.string" /\ Encodable(codec.given)) =>
           /\ codec.err = NoErr
           /\ codec.bytes =
                  IF IsAscii(codec.given)
                  THEN LE(Len(codec.given) + 1, 4) \o codec.given \o <<0>>
                  ELSE I32(0 - (Len(Utf16le(codec.given)) \div 2 + 1))
                       \o Utf16le(codec.given) \o <<0, 0>>
    /\ codec.stage = "Reader.string" =>
           /\ codec.err = NoErr
           /\ codec.str = codec.given
           /\ codec.pos = Len(codec.bytes)

\* C19: after any calls of read, add_file, remove_file and write, every
\* entry of the index has compressed_size equal to size exactly when its
\* compression is NONE.
C19_SizesMatchCompression ==
    \A i \in 1..Len(entrys) :
        (entrys[i].e.compressed_size = entrys[i].e.size)
            <=> (entrys[i].e.compression = "NONE")

\* C20: when write returns or raises, no temporary file is left beside the
\* destination (the Writer over it was closed and the file renamed or
\* removed); when read raises after it opened a Reader on the archive, that
\* Reader is closed.
C20_ResourcesReleased ==
    /\ last.op = "write" =>
           \A n \in AllFiles : n[2] # 0 => ~disk[n].exists
    /\ (last.op = "read_bytes" /\ last.err # NoErr) => ~reader.open
    /\ (/\ last.op = "read"
        /\ last.err # NoErr
        /\ OpenFile(disk[Name(last.arg)]) = NoErr) => ~reader.open

\* the string that Reader.string finds at position off of the bytes, and
\* the position after it
StringAt(bytes, off) ==
    ReaderString([OpenReader(None, bytes) EXCEPT !.pos = off])

\* C21: after write(f) in a directory that exists, the archive f holds an
\* index that begins with the mount point of the PakFile, and from V10 on
\* the path hash seed of the PakFile follows the entry count.
C21_MountPointStored ==
    (last.op = "write" /\ TmpDir(last.arg) \in ExistingDirs) =>
        /\ last.err = NoErr
        /\ disk[Name(last.arg)].exists
        /\ \E off \in 0..Len(disk[Name(last.arg)].bytes) :
               \E x \in {StringAt(disk[Name(last.arg)].bytes, off)} :
                   /\ x.err = NoErr
                   /\ x.str = mount_point
                   /\ version >= V10 =>
                          PySlice(disk[Name(last.arg)].bytes, x.pos + 4,
                                x.pos + 12) = LE(path_hash_seed, 8)

\* C22: the footer written for version v is, in this order: 16 key bytes
\* exactly from V7, the encrypted byte exactly from V4, the magic, the wire
\* version, the index offset, the index size, the index hash, the frozen
\* byte exactly from V9 (V9, V10 and V11), and four zeroed compression
\* slots at V8A, five at every later version.
C22_FooterLayout ==
    codec.stage = "Footer.write" =>
        /\ codec.err = NoErr
        /\ codec.bytes =
               (IF codec.version >= V7 THEN Zeros(16) ELSE <<>>)
               \o (IF codec.version >= V4 THEN <<0>> ELSE <<>>)
               \o MagicBytes
               \o LE(IF codec.version >= V8B THEN codec.version - 1
                     ELSE codec.version, 4)
               \o LE(codec.offset, 8) \o LE(codec.size, 8) \o codec.hash
               \o (IF codec.version >= V9 THEN <<0>> ELSE <<>>)
               \o Zeros(32 * (IF codec.version = V8A THEN 4
                              ELSE IF codec.version > V8A THEN 5 ELSE 0))

\* C23: Footer.read on an archive that ends with the footer of
\* Footer.write(v, ...) returns, with the version v detected.
C23_FooterReadsWritten ==
    codec.stage = "Footer.read" =>
        /\ codec.err = NoErr
        /\ codec.version = codec.written

\* C24: for a Zlib entry of one block whose block positions count from the
\* start of the entry header, as read_encoded rebuilds them at V10 and V11
\* (the block starts at the serialized header size), extracting reads the
\* block at entry.offset + block.start, the first payload byte after the
\* header, and returns the decompressed payload.
C24_BlocksFromHeaderStart ==
    \A parts \in PartLists, wire \in {0, 1} :
        (/\ codec.stage = "extract_file"
         /\ version >= V10
         /\ Len(parts) = 1
         /\ codec.entry =
                ZlibEntry(parts, get_serialized_size(version, TRUE, 1))
         /\ reader.view = ZlibFile(version, wire, parts))
        => /\ codec.err = NoErr
           /\ codec.data = Concat(parts)

(***************************************************************************)
(* file_io.py: the reads of a Reader, one after another on one cursor      *)
(***************************************************************************)
\* Reader.read_int(size): the slice view[pos:pos + size], which is shorter
\* than size near the end of the view, and the cursor moved by size.  val is
\* int.from_bytes(val, byteorder="little"): the number whose base-256
\* digits are the bytes of the slice, of eight digits or as many as the
\* slice has
ReadInt(r, size) ==
    IF ~r.open
    THEN [pos |-> r.pos, err |-> "TypeError", bytes |-> <<>>, val |-> W(0)]
    ELSE Bind(PySlice(r.view, r.pos, r.pos + size), LAMBDA val :
         [pos |-> r.pos + size, err |-> NoErr, bytes |-> val,
          val |-> val \o Zeros(8 - Len(val))])

RECURSIVE ListLoop(_, _, _)
\* [func(self) for _ in range(length)] with func = Reader.uint8
ListLoop(r, left, acc) ==
    IF left = 0 THEN [pos |-> r.pos, err |-> NoErr, items |-> acc]
    ELSE Bind(ReaderUnpack(r, 1), LAMBDA u :
         IF u.err # NoErr
         THEN [pos |-> u.pos, err |-> u.err, items |-> acc]
         ELSE ListLoop([r EXCEPT !.pos = u.pos], left - 1,
                       acc \o u.bytes))

\* Reader.list(Reader.uint8): the count, then that many items
ReaderList(r) ==
    Bind(ReadUint(r, 4), LAMBDA n :
    IF n.err # NoErr THEN [pos |-> n.pos, err |-> n.err, items |-> <<>>]
    ELSE ListLoop([r EXCEPT !.pos = n.pos], Clamp(n.val), <<>>))

\* the cursor up to which the reads are followed
MaxPos == 12

\* the buffers read: three bytes; strings of length 5 and -2 and a list of
\* 3 items, each with two bytes after the prefix; a string and a list that
\* are whole; 22 bytes, a hash or a GUID and more
ReaderBuffers ==
    {<<1, 2, 3>>,
     <<0, 0, 0, 0, 200, 6, 7, 8, 9, 10, 11, 12, 13, 14, 15, 16, 17, 18, 19,
       20, 21, 22>>,
     <<5, 0, 0, 0, 97, 98>>,
     <<254, 255, 255, 255, 97, 0>>,
     <<3, 0, 0, 0, 7, 8>>,
     <<2, 0, 0, 0, 97, 0>>,
     <<2, 0, 0, 0, 7, 8, 1, 0, 0, 0, 9>>}

\* the bytes a read at the cursor of r asks for
StringWant(r) ==
    LET u == ReaderUnpack(r, 4)
        length == I32Val(u.bytes)
    IN  IF u.err # NoErr THEN 4
        ELSE 4 + (IF length > 0 THEN length ELSE (0 - 2) * length)

ListWant(r) ==
    LET n == ReadUint(r, 4)
    IN  IF n.err # NoErr THEN 4
        ELSE ClampAdd(4, Clamp(n.val))

\* Reader.read_into(size, buffer) for a bytearray: the checks and the
\* slice of Reader.read; the buffer is left holding bytes, and size is
\* returned
ReadInto(r, size) ==
    Bind(ReaderRead(r, size), LAMBDA x :
    [pos |-> x.pos, err |-> x.err, bytes |-> x.bytes,
     ret |-> IF x.err = NoErr THEN size ELSE 0])

\* Reader.int8 / int16 / int32 / int64: the value of the formats b, h, i,
\* q, as its sign and its magnitude
ReadSigned(r, w) ==
    Bind(ReaderUnpack(r, w), LAMBDA u :
    IF u.err # NoErr
    THEN [pos |-> u.pos, err |-> u.err, neg |-> FALSE, mag |-> W(0)]
    ELSE IF u.bytes[w] < 128
    THEN [pos |-> u.pos, err |-> NoErr, neg |-> FALSE,
          mag |-> u.bytes \o Zeros(8 - w)]
    ELSE [pos |-> u.pos, err |-> NoErr, neg |-> TRUE,
          mag |-> WAdd([i \in 1..8 |-> IF i <= w THEN 255 - u.bytes[i]
                                       ELSE 0], W(1)) \o <<>>])

\* Reader.bool
ReadBool(r) ==
    Bind(ReaderUnpack(r, 1), LAMBDA u :
    [pos |-> u.pos, err |-> u.err,
     val |-> u.err = NoErr /\ u.bytes # <<0>>])

\* Reader.sha1
ReadSha1(r) == ReaderRead(r, 20)

\* Reader.guid: the UUID whose bytes_le are the 16 bytes read; UUID raises
\* ValueError for the shorter slice that a cursor before byte 0 gives
ReadGuid(r) ==
    Bind(ReaderRead(r, 16), LAMBDA x :
    IF x.err = NoErr /\ Len(x.bytes) # 16
    THEN [x EXCEPT !.err = "ValueError", !.bytes = <<>>] ELSE x)

\* Reader.strings_list(): list calls func(self) with func the bound method
\* self.string, so the reader is taken for the length and length > 0
\* raises TypeError when there is an item to read
ReadStringsList(r) ==
    Bind(ReadUint(r, 4), LAMBDA n :
    [pos |-> n.pos,
     err |-> IF n.err # NoErr THEN n.err
             ELSE IF n.val # W(0) THEN "TypeError" ELSE NoErr,
     items |-> <<>>])

\* what a call leaves: the reader r1, the cursor it had before, the bytes
\* asked for, the exception and the value returned
Done(op, r0, r1, want, err, got) ==
    [err |-> err, r |-> r1, stage |-> "Reader",
     op |-> op, want |-> want, got |-> got, pos0 |-> r0.pos]

\* what a read leaves: the reader with its cursor
ReadDone(op, r, pos, want, err, got) ==
    Done(op, r, [r EXCEPT !.pos = pos], want, err, got)

\* Reader(buf)
reader_open(buf) ==
    /\ codec' = ReadDone("open", OpenReader(None, buf), 0, 0, NoErr, <<>>)
    /\ last' = Call("Reader", None, NoErr, None)
    /\ UNCHANGED <<version, key, entrys, reader, footer, mount_point,
                   path_hash_seed, disk, ntmp, added, nops>>

\* the reader is there and its cursor is within the bound
Readable ==
    /\ codec.stage = "Reader"
    /\ 0 - MaxPos <= codec.r.pos
    /\ codec.r.pos <= MaxPos

\* reader.set_pos(position, where)
reader_set_pos(position, where) ==
    /\ Readable
    /\ codec' = Done("set_pos", codec.r, SetPos(codec.r, position, where), 0,
                     NoErr, <<>>)
    /\ last' = Call("Reader.set_pos", None, NoErr, None)
    /\ UNCHANGED <<version, key, entrys, reader, footer, mount_point,
                   path_hash_seed, disk, ntmp, added, nops>>

\* reader.move(offset)
reader_move(offset) ==
    /\ Readable
    /\ codec' = Done("move", codec.r, Move(codec.r, offset), 0, NoErr, <<>>)
    /\ last' = Call("Reader.move", None, NoErr, None)
    /\ UNCHANGED <<version, key, entrys, reader, footer, mount_point,
                   path_hash_seed, disk, ntmp, added, nops>>

\* reader.set_endian(endian)
reader_set_endian(endian) ==
    /\ Readable
    /\ \E x \in {SetEndian(codec.r, endian)} :
           /\ codec' = Done("set_endian", codec.r, x.reader, 0, x.err, <<>>)
           /\ last' = Call("Reader.set_endian", None, x.err, None)
    /\ UNCHANGED <<version, key, entrys, reader, footer, mount_point,
                   path_hash_seed, disk, ntmp, added, nops>>

\* reader.close()
reader_close ==
    /\ Readable
    /\ codec' = Done("close", codec.r, ReaderClose(codec.r), 0, NoErr, <<>>)
    /\ last' = Call("Reader.close", None, NoErr, None)
    /\ UNCHANGED <<version, key, entrys, reader, footer, mount_point,
                   path_hash_seed, disk, ntmp, added, nops>>

\* reader.reopen() of a reader of bytes
reader_reopen ==
    /\ Readable
    /\ \E err \in {IF codec.r.endian \in Endians THEN NoErr
                   ELSE "KeyError"} :
           /\ codec' = Done("reopen", codec.r, ReaderReopen(codec.r, disk),
                            0, err, <<>>)
           /\ last' = Call("Reader.reopen", None, err, None)
    /\ UNCHANGED <<version, key, entrys, reader, footer, mount_point,
                   path_hash_seed, disk, ntmp, added, nops>>

\* reader.buffer(offset, size): the reader of the bytes; the cursor stays
reader_buffer(offset, size) ==
    /\ Readable
    /\ \E x \in {ReaderBuffer(codec.r, offset, size)} :
           /\ codec' = Done("buffer", codec.r, codec.r, 0, x.err,
                            x.reader.view)
           /\ last' = Call("Reader.buffer", None, x.err, None)
    /\ UNCHANGED <<version, key, entrys, reader, footer, mount_point,
                   path_hash_seed, disk, ntmp, added, nops>>

\* reader.read(size)
reader_read(size) ==
    /\ Readable
    /\ \E x \in {ReaderRead(codec.r, size)} :
           /\ codec' = ReadDone("read", codec.r, x.pos, size, x.err, x.bytes)
           /\ last' = Call("Reader.read", None, x.err, None)
    /\ UNCHANGED <<version, key, entrys, reader, footer, mount_point,
                   path_hash_seed, disk, ntmp, added, nops>>

\* reader.read_into(size, bytearray())
reader_read_into(size) ==
    /\ Readable
    /\ \E x \in {ReadInto(codec.r, size)} :
           /\ codec' = ReadDone("read_into", codec.r, x.pos, size, x.err,
                                x.bytes)
           /\ last' = Call("Reader.read_into", None, x.err, None)
    /\ UNCHANGED <<version, key, entrys, reader, footer, mount_point,
                   path_hash_seed, disk, ntmp, added, nops>>

\* reader.sha1()
reader_sha1 ==
    /\ Readable
    /\ \E x \in {ReadSha1(codec.r)} :
           /\ codec' = ReadDone("sha1", codec.r, x.pos, 20, x.err, x.bytes)
           /\ last' = Call("Reader.sha1", None, x.err, None)
    /\ UNCHANGED <<version, key, entrys, reader, footer, mount_point,
                   path_hash_seed, disk, ntmp, added, nops>>

\* reader.guid()
reader_guid ==
    /\ Readable
    /\ \E x \in {ReadGuid(codec.r)} :
           /\ codec' = ReadDone("guid", codec.r, x.pos, 16, x.err, x.bytes)
           /\ last' = Call("Reader.guid", None, x.err, None)
    /\ UNCHANGED <<version, key, entrys, reader, footer, mount_point,
                   path_hash_seed, disk, ntmp, added, nops>>

\* reader.uint8(), uint16(), uint32(), uint64(); uint() is uint8()
reader_uint(w) ==
    /\ Readable
    /\ \E x \in {ReaderUnpack(codec.r, w)} :
           /\ codec' = ReadDone("uint", codec.r, x.pos, w, x.err, x.bytes)
           /\ last' = Call("Reader.uint", None, x.err, None)
    /\ UNCHANGED <<version, key, entrys, reader, footer, mount_point,
                   path_hash_seed, disk, ntmp, added, nops>>

\* reader.int8(), int16(), int32(), int64(); int() is int8().  The value
\* is kept as its sign (1: negative) in front of its magnitude
reader_int(w) ==
    /\ Readable
    /\ \E x \in {ReadSigned(codec.r, w)} :
           /\ codec' = ReadDone("int", codec.r, x.pos, w, x.err,
                                <<IF x.neg THEN 1 ELSE 0>> \o x.mag)
           /\ last' = Call("Reader.int", None, x.err, None)
    /\ UNCHANGED <<version, key, entrys, reader, footer, mount_point,
                   path_hash_seed, disk, ntmp, added, nops>>

\* reader.bool()
reader_bool ==
    /\ Readable
    /\ \E x \in {ReadBool(codec.r)} :
           /\ codec' = ReadDone("bool", codec.r, x.pos, 1, x.err,
                                <<IF x.val THEN 1 ELSE 0>>)
           /\ last' = Call("Reader.bool", None, x.err, None)
    /\ UNCHANGED <<version, key, entrys, reader, footer, mount_point,
                   path_hash_seed, disk, ntmp, added, nops>>

\* reader.read_int(size)
reader_read_int(size) ==
    /\ Readable
    /\ \E x \in {ReadInt(codec.r, size)} :
           /\ codec' = ReadDone("read_int", codec.r, x.pos, size, x.err,
                                x.bytes)
           /\ last' = Call("Reader.read_int", None, x.err, None)
    /\ UNCHANGED <<version, key, entrys, reader, footer, mount_point,
                   path_hash_seed, disk, ntmp, added, nops>>

\* reader.string() at the cursor
reader_string_at ==
    /\ Readable
    /\ \E x \in {ReaderString(codec.r)} :
           /\ codec' = ReadDone("string", codec.r, x.pos,
                                StringWant(codec.r), x.err, x.str)
           /\ last' = Call("Reader.string", None, x.err, None)
    /\ UNCHANGED <<version, key, entrys, reader, footer, mount_point,
                   path_hash_seed, disk, ntmp, added, nops>>

\* reader.list(Reader.uint8)
reader_list ==
    /\ Readable
    /\ \E x \in {ReaderList(codec.r)} :
           /\ codec' = ReadDone("list", codec.r, x.pos, ListWant(codec.r),
                                x.err, x.items)
           /\ last' = Call("Reader.list", None, x.err, None)
    /\ UNCHANGED <<version, key, entrys, reader, footer, mount_point,
                   path_hash_seed, disk, ntmp, added, nops>>

\* reader.strings_list()
reader_strings_list ==
    /\ Readable
    /\ \E x \in {ReadStringsList(codec.r)} :
           /\ codec' = ReadDone("strings_list", codec.r, x.pos, 4, x.err,
                                x.items)
           /\ last' = Call("Reader.strings_list", None, x.err, None)
    /\ UNCHANGED <<version, key, entrys, reader, footer, mount_point,
                   path_hash_seed, disk, ntmp, added, nops>>

\* the calls that read at the cursor
ReadOps ==
    {"read", "read_into", "sha1", "guid", "uint", "int", "bool", "read_int",
     "string", "list", "strings_list"}

NextReader ==
    \/ \E buf \in ReaderBuffers : reader_open(buf)
    \/ \E position \in {0, 2, 0 - 3}, where \in 0..3 :
           reader_set_pos(position, where)
    \/ \E offset \in {1, 0 - 1} : reader_move(offset)
    \/ \E endian \in {"<", ">", "="} : reader_set_endian(endian)
    \/ reader_close
    \/ reader_reopen
    \/ \E offset \in {0, 4}, size \in {2} : reader_buffer(offset, size)
    \/ \E size \in {1, 2, 5} : reader_read(size)
    \/ \E size \in {2} : reader_read_into(size)
    \/ reader_sha1
    \/ reader_guid
    \/ \E w \in {1, 2, 4, 8} : reader_uint(w)
    \/ \E w \in {1, 2, 4, 8} : reader_int(w)
    \/ reader_bool
    \/ \E size \in {1, 2, 4} : reader_read_int(size)
    \/ reader_string_at
    \/ reader_list
    \/ reader_strings_list

SpecReader == InitText /\ [][NextReader]_vars

\* a path without empty components: no slash at either end, no two in a row
CleanPath(path) ==
    /\ path # <<>>
    /\ path[1] # Slash
    /\ path[Len(path)] # Slash
    /\ \A i \in 1..(Len(path) - 1) : ~(path[i] = Slash /\ path[i + 1] = Slash)

\* the directories above a clean path: the root and every prefix that ends
\* in a slash
DirsAbove(path) ==
    {<<Slash>>} \cup {SubSeq(path, 1, i) : i \in {j \in 1..Len(path) :
                                                      path[j] = Slash}}

\* the (directory, file) pairs of an fdi that recombine into the path
PairsOf(fdi, path) ==
    {ij \in (1..Len(fdi)) \X (1..Len(path)) :
        /\ ij[2] <= Len(fdi[ij[1]].files)
        /\ LStripSlash(fdi[ij[1]].dir) \o fdi[ij[1]].files[ij[2]].name = path}

Range(seq) == {seq[i] : i \in 1..Len(seq)}

\* C25: generate_fdi gives a key to the root and to every ancestor
\* directory of each path and holds each path under exactly one (directory,
\* file name) pair; Index.read of a V10+ index written for a list of paths
\* returns exactly these paths, also for paths that begin with "/".
C25_PathsReadBack ==
    /\ (/\ codec.stage = "generate_fdi"
        /\ \A i \in 1..Len(codec.paths) : CleanPath(codec.paths[i]))
       => /\ codec.err = NoErr
          /\ \A i \in 1..Len(codec.paths) :
                 /\ \A d \in DirsAbove(codec.paths[i]) : FdiHas(codec.fdi, d)
                 /\ Cardinality(PairsOf(codec.fdi, codec.paths[i])) = 1
    /\ (/\ codec.stage = "Index.read"
        /\ codec.kind = "written"
        /\ codec.version >= V10)
       => /\ codec.err = NoErr
          /\ Range(Keys(codec.entrys)) = Range(codec.paths)

\* C26: reading a V10+ index, a directory record with a non-negative
\* offset gets the entry decoded from the encoded entries at that offset
\* (the i-th path written has size 3 + i at offset 10 * i), and a record
\* with the value -k-1 gets the k-th entry of the not-encoded table: an
\* index with a not-encoded entry is read and each of its paths has an
\* entry.
C26_EntriesResolved ==
    /\ (/\ codec.stage = "Index.read"
        /\ codec.kind = "written"
        /\ codec.version >= V10
        /\ \A i \in 1..Len(codec.paths) : CleanPath(codec.paths[i]))
       => /\ codec.err = NoErr
          /\ \A i \in 1..Len(codec.paths) :
                 /\ Has(codec.entrys, codec.paths[i])
                 /\ Get(codec.entrys, codec.paths[i]).offset = 10 * i
                 /\ Get(codec.entrys, codec.paths[i]).size = 3 + i
    /\ (codec.stage = "Index.read" /\ codec.kind = "not_encoded")
       => /\ codec.err = NoErr
          /\ Range(Keys(codec.entrys)) = Range(codec.paths)

\* the length of the header Entry.write_data puts in front of a payload
DataHeaderSize(v) == Len(EntryData(0, <<>>, v))

\* the offsets follow one another: the first is 0, each next one is the
\* previous offset plus the header plus the previous size
Contiguous(items, v) ==
    \A i \in 1..Len(items) :
        items[i].e.offset =
            IF i = 1 THEN 0
            ELSE items[i - 1].e.offset + DataHeaderSize(v)
                 + items[i - 1].e.size

\* the position just after the last payload
PayloadEnd(items, v) ==
    IF items = <<>> THEN 0
    ELSE items[Len(items)].e.offset + DataHeaderSize(v)
         + items[Len(items)].e.size

\* the length of the footer from its magic on, and the index_offset and
\* index_size fields of the footer an archive ends in
TailSize(v) ==
    44 + (IF v = V9 THEN 1 ELSE 0)
       + 32 * (IF v = V8A THEN 4 ELSE IF v > V8A THEN 5 ELSE 0)

StoredIndexOffset(bytes, v) ==
    U64Val(SubSeq(bytes, Len(bytes) - TailSize(v) + 9,
                  Len(bytes) - TailSize(v) + 16))

StoredIndexSize(bytes, v) ==
    U64Val(SubSeq(bytes, Len(bytes) - TailSize(v) + 17,
                  Len(bytes) - TailSize(v) + 24))

\* C27: after write(f) the entries lie one after another from offset 0 in
\* the order of the index, each taking its header and its payload, and the
\* archive f ends in a footer whose index_offset is the position just after
\* the last payload and whose index_size reaches no further than the
\* footer.
C27_ContiguousLayout ==
    last.op = "write" =>
        /\ last.err = NoErr
        /\ Contiguous(entrys, version)
        /\ LET c == disk[Name(last.arg)]
           IN  /\ OpenFile(c) = NoErr
               /\ Len(FileBytes(c)) >= PayloadEnd(entrys, version)
                                       + TailSize(version)
               /\ StoredIndexOffset(FileBytes(c), version)
                      = W(PayloadEnd(entrys, version))
               /\ WLeq(WAdd(StoredIndexOffset(FileBytes(c), version),
                            StoredIndexSize(FileBytes(c), version)),
                       W(Len(FileBytes(c)) - TailSize(version)))

\* C28: a read of a Reader that asks for bytes past the end of the buffer
\* raises instead of returning short data, and after every read, begun
\* with the cursor between 0 and the size of the buffer, the cursor lies
\* between 0 and the size again; so a string whose length prefix exceeds
\* the bytes left raises.
C28_ReadsStayInside ==
    (/\ codec.stage = "Reader"
     /\ codec.op \in ReadOps
     /\ 0 <= codec.pos0
     /\ codec.pos0 <= Len(codec.r.view)) =>
        /\ 0 <= codec.r.pos
        /\ codec.r.pos <= Len(codec.r.view)
        /\ codec.want > Len(codec.r.view) - codec.pos0 => codec.err # NoErr

\* the last call was a read that detected the version of an archive in its
\* source
ReadDetected ==
    \/ last.op = "read_bytes" /\ last.ret # NoVersion
    \/ /\ last.op = "read"
       /\ OpenFile(disk[Name(last.arg)]) = NoErr
       /\ last.ret # NoVersion

\* C29: when read has opened a source in which it detected an archive and
\* write(g) is the next call, both calls return, the archive g opens again
\* with the paths the index held, read_file of g gives for every path the
\* bytes read_file gave before the write, and every entry is left
\* unencrypted and uncompressed with no blocks.
C29_RewriteKeepsContents ==
    [][(Called("write") /\ ReadDetected)
       => /\ last.err = NoErr
          /\ last'.err = NoErr
          /\ Reopened(last'.arg).err = NoErr
          /\ Keys(Reopened(last'.arg).entrys) = Keys(entrys)
          /\ \A i \in 1..Len(entrys) :
                 ReopenedReadFile(last'.arg, entrys[i].path).data
                     = ExtractFile(entrys[i].e, reader, version, key).data
          /\ \A i \in 1..Len(entrys') :
                 /\ ~entrys'[i].e.is_encrypted
                 /\ entrys'[i].e.compression_block_count = 0
                 /\ entrys'[i].e.compressed_size = entrys'[i].e.size]_vars

\* C30: when write(g) is called right after write(f), both calls return
\* and the archive g opens again with the paths of the archive f and with
\* the same bytes for every path.
C30_WriteRepeatable ==
    [][(Called("write") /\ last.op = "write")
       => /\ last.err = NoErr
          /\ last'.err = NoErr
          /\ Reopened(last'.arg).err = NoErr
          /\ Keys(Reopened(last'.arg).entrys)
                 = Keys(Reopened(last.arg).entrys)
          /\ \A i \in 1..Len(entrys) :
                 ReopenedReadFile(last'.arg, entrys[i].path)
                     = ReopenedReadFile(last.arg, entrys[i].path)]_vars

====
